---- MODULE Spec2Model ----
(***************************************************************************)
(* Session State Lifecycle & Promotion Engine of the Simulation Life Guide *)
(* agent: schema migration of the session state, session bootstrap         *)
(* (find_or_create_session), the pending-persistence queue and its flush.  *)
(*                                                                         *)
(* A Python dict is modelled by the record [keys, val]: keys is the        *)
(* insertion order of the dict, val the mapping (a function whose DOMAIN   *)
(* is the set of keys present).  A session state, whose order is never     *)
(* observed, is modelled by the mapping alone.                             *)
(***************************************************************************)
EXTENDS Integers, Sequences, FiniteSets, TLC

(***************************************************************************)
(* Bounds of the model.                                                    *)
(***************************************************************************)
\* number of state keys whose presence varies in the initial session states
MaxSeedKeys == 5
\* largest version number passed to get_migration_updates
MaxVersionArg == 4
\* number of tool invocations in the turns of one session
MaxToolCalls == 2
\* number of find_or_create_session calls
MaxCalls == 2
\* number of sessions of the user when the operations run in any order
MaxSessions == 2
\* length of the reminders list
MaxReminders == 2

\* model callbacks (turns) of a session
MaxTurns == 3

\* advances of the clock, of 300 seconds each
MaxTicks == 1

\* reminders kept in each list of a session under classification
MaxKept == 1

\* after_agent_callback calls of a session
MaxRequests == 1

\* sessions held by the knowledge store
MaxUploads == 1

\* sessions living side by side
MaxShared == 2

\* operations on the sessions living side by side
MaxShareOps == 6

\* turns that begin with the session loaded from the store
MaxReloads == 1

(***************************************************************************)
(* Python dict primitives.                                                 *)
(***************************************************************************)
EmptyMap == [k \in {} |-> 0]

EmptyDict == [keys |-> <<>>, val |-> EmptyMap]

\* d[k] = v : a key already present keeps its position, a new key goes last
DictSet(d, k, v) ==
    [keys |-> IF k \in DOMAIN d.val THEN d.keys ELSE Append(d.keys, k),
     val  |-> (k :> v) @@ d.val]

RECURSIVE DictUpdateFrom(_, _, _)
\* d.update(e), from the i-th key of e on
DictUpdateFrom(d, e, i) ==
    IF i > Len(e.keys) THEN d
    ELSE DictUpdateFrom(DictSet(d, e.keys[i], e.val[e.keys[i]]), e, i + 1)

DictUpdate(d, e) == DictUpdateFrom(d, e, 1)

\* state.get(key, default)
StateGet(state, key, default) ==
    IF key \in DOMAIN state THEN state[key] ELSE default

(***************************************************************************)
(* Configuration defaults (agent/config.py), in dict order.                *)
(***************************************************************************)
DEFAULT_USER_PREFERENCES ==
    << <<"profile:name", "Abdullah">>,
       <<"profile:timezone", "UTC+2">>,
       <<"profile:theme_preference", "system">>,
       <<"profile:notification_preference", TRUE>>,
       <<"profile:focus_areas", <<"ai", "technology", "wealth_creation", "personal_growth">> >>,
       <<"profile:reminders", <<>> >>,
       <<"profile:language_preference", "en">>,
       <<"profile:conversation_style", "balanced">> >>

DEFAULT_APP_STATE ==
    << <<"system:version", "1.0.0">>,
       <<"system:last_updated", "2023-04-30">> >>

CURRENT_MIGRATION_VERSION == 3

new_v2_preferences ==
    << <<"profile:language_preference", "en">>,
       <<"profile:conversation_style", "balanced">> >>

\* (old_key, new_key) pairs of the v3 namespace migration, in dict order
namespace_migrations ==
    << <<"user:name", "profile:name">>,
       <<"user:timezone", "profile:timezone">>,
       <<"user:theme_preference", "profile:theme_preference">>,
       <<"user:notification_preference", "profile:notification_preference">>,
       <<"user:focus_areas", "profile:focus_areas">>,
       <<"user:reminders", "profile:reminders">>,
       <<"user:language_preference", "profile:language_preference">>,
       <<"user:conversation_style", "profile:conversation_style">>,
       <<"app:version", "system:version">>,
       <<"app:last_updated", "system:last_updated">> >>

(***************************************************************************)
(* get_migration_updates (agent/state.py).                                 *)
(***************************************************************************)
RECURSIVE AddAbsentDefaults(_, _, _, _)
\* for key, value in defaults.items(): if key not in existing_state: updates[key] = value
AddAbsentDefaults(updates, defaults, existing_state, i) ==
    IF i > Len(defaults) THEN updates
    ELSE AddAbsentDefaults(
             IF defaults[i][1] \notin DOMAIN existing_state
             THEN DictSet(updates, defaults[i][1], defaults[i][2])
             ELSE updates,
             defaults, existing_state, i + 1)

RECURSIVE OverwriteDefaults(_, _, _, _)
\* the loop above without its "not in existing_state" test
OverwriteDefaults(updates, defaults, existing_state, i) ==
    IF i > Len(defaults) THEN updates
    ELSE OverwriteDefaults(DictSet(updates, defaults[i][1], defaults[i][2]),
                           defaults, existing_state, i + 1)

RECURSIVE RenameNamespaces(_, _, _, _)
\* for old_key, new_key in namespace_migrations.items():
\*     if old_key in existing_state and new_key not in existing_state:
\*         updates[new_key] = existing_state[old_key]
RenameNamespaces(updates, pairs, existing_state, i) ==
    IF i > Len(pairs) THEN updates
    ELSE RenameNamespaces(
             IF /\ pairs[i][1] \in DOMAIN existing_state
                /\ pairs[i][2] \notin DOMAIN existing_state
             THEN DictSet(updates, pairs[i][2], existing_state[pairs[i][1]])
             ELSE updates,
             pairs, existing_state, i + 1)

MigrationStep1(updates, current_version, target_version, existing_state) ==
    IF current_version < 1 /\ 1 <= target_version
    THEN AddAbsentDefaults(updates, DEFAULT_USER_PREFERENCES, existing_state, 1)
    ELSE updates

MigrationStep2(updates, current_version, target_version, existing_state) ==
    IF current_version < 2 /\ 2 <= target_version
    THEN AddAbsentDefaults(updates, new_v2_preferences, existing_state, 1)
    ELSE updates

MigrationStep3(updates, current_version, target_version, existing_state) ==
    IF current_version < 3 /\ 3 <= target_version
    THEN RenameNamespaces(updates, namespace_migrations, existing_state, 1)
    ELSE updates

\* get_migration_updates with step v2 writing its defaults unconditionally
get_migration_updates_overwriting(current_version, target_version, existing_state) ==
    MigrationStep3(
        IF current_version < 2 /\ 2 <= target_version
        THEN OverwriteDefaults(
                 MigrationStep1(EmptyDict, current_version, target_version, existing_state),
                 new_v2_preferences, existing_state, 1)
        ELSE MigrationStep1(EmptyDict, current_version, target_version, existing_state),
        current_version, target_version, existing_state)

RECURSIVE RenameNamespacesKeeping(_, _, _, _)
\* the rename loop that also skips a new key an earlier step has emitted
RenameNamespacesKeeping(updates, pairs, existing_state, i) ==
    IF i > Len(pairs) THEN updates
    ELSE RenameNamespacesKeeping(
             IF /\ pairs[i][1] \in DOMAIN existing_state
                /\ pairs[i][2] \notin DOMAIN existing_state
                /\ pairs[i][2] \notin DOMAIN updates.val
             THEN DictSet(updates, pairs[i][2], existing_state[pairs[i][1]])
             ELSE updates,
             pairs, existing_state, i + 1)

\* get_migration_updates whose rename step keeps the default an earlier step
\* emitted for the new key
get_migration_updates_keeping(current_version, target_version, existing_state) ==
    LET updates == MigrationStep2(
                       MigrationStep1(EmptyDict, current_version, target_version,
                                      existing_state),
                       current_version, target_version, existing_state)
    IN  IF current_version < 3 /\ 3 <= target_version
        THEN RenameNamespacesKeeping(updates, namespace_migrations, existing_state, 1)
        ELSE updates

\* get_migration_updates with step v2 also run from version 2 (<= for <)
get_migration_updates_inclusive(current_version, target_version, existing_state) ==
    MigrationStep3(
        IF current_version <= 2 /\ 2 <= target_version
        THEN AddAbsentDefaults(
                 MigrationStep1(EmptyDict, current_version, target_version, existing_state),
                 new_v2_preferences, existing_state, 1)
        ELSE MigrationStep1(EmptyDict, current_version, target_version, existing_state),
        current_version, target_version, existing_state)

get_migration_updates(current_version, target_version, existing_state) ==
    MigrationStep3(
        MigrationStep2(
            MigrationStep1(EmptyDict, current_version, target_version, existing_state),
            current_version, target_version, existing_state),
        current_version, target_version, existing_state)

(***************************************************************************)
(* Events.  An event is [author, invocation_id, delta, content]; its       *)
(* timestamp is not modelled.  NoneEvent stands for Python's None.         *)
(***************************************************************************)
Event(author, invocation_id, state_delta, content) ==
    [author |-> author, invocation_id |-> invocation_id,
     delta |-> state_delta, content |-> content]

NoneEvent == Event("", "None", EmptyDict, "")

IsNone(event) == event.invocation_id = "None"

(***************************************************************************)
(* migrate_existing_session (agent/state.py).                              *)
(***************************************************************************)
\* migrate_existing_session with the version test off by one (> for >=)
migrate_existing_session_strict(state) ==
    LET current_version == StateGet(state, "migration_version", 0)
        migration_updates ==
            get_migration_updates(current_version, CURRENT_MIGRATION_VERSION, state)
    IN  IF current_version > CURRENT_MIGRATION_VERSION THEN NoneEvent
        ELSE Event("system", "session_migration",
                   DictSet(migration_updates, "migration_version",
                           CURRENT_MIGRATION_VERSION),
                   "Session migrated to v3")

migrate_existing_session(state) ==
    LET current_version == StateGet(state, "migration_version", 0)
        migration_updates ==
            get_migration_updates(current_version, CURRENT_MIGRATION_VERSION, state)
    IN  IF current_version >= CURRENT_MIGRATION_VERSION THEN NoneEvent
        ELSE Event("system", "session_migration",
                   IF migration_updates.keys = <<>>
                   THEN DictSet(EmptyDict, "migration_version",
                                CURRENT_MIGRATION_VERSION)
                   ELSE DictSet(migration_updates, "migration_version",
                                CURRENT_MIGRATION_VERSION),
                   "Session migrated to v3")

(***************************************************************************)
(* initialize_session_state (agent/state.py).  current_time is the value   *)
(* of datetime.now().timestamp() read by the call.                         *)
(***************************************************************************)
\* initialize_session_state whose last step writes a version of its own
\* (1, the version of the revision that introduced it) whatever the state holds
initialize_session_state_stale(state, current_time) ==
    LET current_migration_version == StateGet(state, "migration_version", 0)
        needs_migration == current_migration_version < CURRENT_MIGRATION_VERSION
        s1 == IF needs_migration
              THEN DictSet(
                       DictUpdate(EmptyDict,
                                  get_migration_updates(current_migration_version,
                                                        CURRENT_MIGRATION_VERSION,
                                                        state)),
                       "migration_version", CURRENT_MIGRATION_VERSION)
              ELSE EmptyDict
        s2 == AddAbsentDefaults(s1, DEFAULT_USER_PREFERENCES, state, 1)
        s3 == AddAbsentDefaults(s2, DEFAULT_APP_STATE, state, 1)
        s4 == DictSet(DictSet(s3, "session_start_time", current_time),
                      "is_new_session", TRUE)
    IN  Event("system", "session_initialization",
              DictSet(s4, "migration_version", 1),
              IF needs_migration THEN "Session migrated"
              ELSE "Session initialized with default state")

initialize_session_state(state, current_time) ==
    LET current_migration_version == StateGet(state, "migration_version", 0)
        needs_migration == current_migration_version < CURRENT_MIGRATION_VERSION
        s1 == IF needs_migration
              THEN DictSet(
                       DictUpdate(EmptyDict,
                                  get_migration_updates(current_migration_version,
                                                        CURRENT_MIGRATION_VERSION,
                                                        state)),
                       "migration_version", CURRENT_MIGRATION_VERSION)
              ELSE EmptyDict
        s2 == AddAbsentDefaults(s1, DEFAULT_USER_PREFERENCES, state, 1)
        s3 == AddAbsentDefaults(s2, DEFAULT_APP_STATE, state, 1)
        s4 == DictSet(DictSet(s3, "session_start_time", current_time),
                      "is_new_session", TRUE)
        initial_state ==
              IF "migration_version" \notin DOMAIN state
              THEN DictSet(s4, "migration_version", CURRENT_MIGRATION_VERSION)
              ELSE s4
    IN  IF initial_state.keys /= <<>>
        THEN Event("system", "session_initialization", initial_state,
                   IF needs_migration THEN "Session migrated"
                   ELSE "Session initialized with default state")
        ELSE NoneEvent

(***************************************************************************)
(* State of the model.                                                     *)
(*   store    the session store of one user: the sequence of its sessions  *)
(*            in creation order, store[i] = [state, events] being the      *)
(*            session with id i, its state the fold of its events' deltas  *)
(*   now      the clock read by datetime.now() / time.time()               *)
(*   lastUpd  the latest get_migration_updates call and its result         *)
(*   lastMig  the latest migrate_existing_session call and its result      *)
(*   lastInit the latest initialize_session_state call and its result      *)
(*   session  the in-memory session object of the turn in progress:        *)
(*            [id, state]; tools and callbacks write its state             *)
(*   lastTool the latest tool invocation and its response                  *)
(*   lastFlush the latest process_pending_state_persistence call           *)
(*   lastRem  the latest reminder tool call and its result                 *)
(*   hist     the find_or_create_session calls made so far: their number n, *)
(*            the latest call (last) with its arguments, the store calls   *)
(*            it made and its outcome, and a summary of the call before it *)
(*            (prev)                                                       *)
(*   lastEval the latest _should_save_session_to_memory evaluation of the  *)
(*            session, kept while the session's state stays as evaluated   *)
(*   lastAgent the latest after_agent_callback call and what it returned   *)
(*   tasks    the background tasks after_agent_callback has scheduled and  *)
(*            the event loop has not run yet                               *)
(*   memory   the knowledge store: the ids of the sessions uploaded to it  *)
(*   lastMem  the latest promotion run (a background task or a call of     *)
(*            maybe_add_session_to_memory): the calls it made on the       *)
(*            session service and the knowledge store and its outcome      *)
(*   objects  the session object each stored session is worked on through: *)
(*            whether one is held, its state, and whether its              *)
(*            profile:reminders is the list object of the defaults         *)
(*   defaultReminders  the content of the module-level list                *)
(*            DEFAULT_USER_PREFERENCES["profile:reminders"]                *)
(*   lastOp   the latest operation on a session, the session it worked on  *)
(*            and a count of the operations or stagings so far             *)
(***************************************************************************)
VARIABLES store, now, lastUpd, lastMig, lastInit, session, lastTool, lastFlush,
          lastRem, hist, lastEval, lastAgent, tasks, memory, lastMem,
          objects, defaultReminders, lastOp

vars ==
    <<store, now, lastUpd, lastMig, lastInit, session, lastTool, lastFlush,
      lastRem, hist, lastEval, lastAgent, tasks, memory, lastMem,
      objects, defaultReminders, lastOp>>

bootVars == <<hist>>

migVars == <<lastUpd, lastMig, lastInit>>

turnVars == <<session, lastTool, lastFlush, lastRem>>

memVars == <<lastEval, lastAgent, tasks, memory, lastMem>>

shareVars == <<objects, defaultReminders, lastOp>>

(***************************************************************************)
(* The session store (external collaborator): append_event appends to the  *)
(* session's event log and folds the event's delta into the session state. *)
(***************************************************************************)
NewSession(state) == [state |-> state, events |-> <<>>]

ApplyDelta(state, delta) == delta.val @@ state

append_event(st, session_id, event) ==
    [st EXCEPT ![session_id] =
        [state  |-> ApplyDelta(@.state, event.delta),
         events |-> Append(@.events, event)]]

(***************************************************************************)
(* Tool context state (ADK State): a write goes to the in-memory session   *)
(* state and is recorded in the delta of the tool's event.                 *)
(***************************************************************************)
CtxSet(ctx, key, value) ==
    [state |-> (key :> value) @@ ctx.state,
     delta |-> DictSet(ctx.delta, key, value)]

\* str.strip() on the preference names of the model
Strip(name) ==
    CASE name = "" -> ""
      [] name = "  " -> ""
      [] name = " timezone " -> "timezone"
      [] OTHER -> name

PreferenceNames == {"", "  ", " timezone ", "language_preference"}

PreferenceValues == {"UTC+1", "af"}

\* json.dumps(value) succeeds: every value a tool call carries is a JSON value
JsonSerializable(value) == TRUE

\* str(value), the fallback of create_state_update_event
Str(value) == <<"str", value>>

(***************************************************************************)
(* tools/common.py                                                         *)
(***************************************************************************)
RECURSIVE SerializableUpdates(_, _, _)
SerializableUpdates(acc, state_updates, i) ==
    IF i > Len(state_updates.keys) THEN acc
    ELSE LET key == state_updates.keys[i]
             value == state_updates.val[key]
         IN  SerializableUpdates(
                 DictSet(acc, key,
                         IF JsonSerializable(value) THEN value ELSE Str(value)),
                 state_updates, i + 1)

create_state_update_event(state_updates, message) ==
    Event("tool", "state_update",
          SerializableUpdates(EmptyDict, state_updates, 1), message)

safe_state_set(ctx, key, value) == CtxSet(ctx, key, value)

safe_state_set_with_persistence_flag(ctx, key, value, message) ==
    LET c1 == CtxSet(ctx, key, value)
        pending_changes == StateGet(c1.state, "_pending_state_changes", EmptyMap)
    IN  CtxSet(c1, "_pending_state_changes",
               (key :> [value |-> value, message |-> message]) @@ pending_changes)

\* responses of the tools: [action, status, error_type, changed,
\* _needs_persistence, _state_changes]
create_error_response(action, error_type) ==
    [action |-> action, status |-> "error", error_type |-> error_type,
     changed |-> FALSE, _needs_persistence |-> FALSE, _state_changes |-> EmptyDict]

create_success_response(action, changed) ==
    [action |-> action, status |-> "success", error_type |-> "",
     changed |-> changed, _needs_persistence |-> FALSE, _state_changes |-> EmptyDict]

create_success_response_with_state_changes(action, changed, state_changes) ==
    [action |-> action, status |-> "success", error_type |-> "",
     changed |-> changed,
     _needs_persistence |-> state_changes.keys /= <<>>,
     _state_changes |-> state_changes]

\* the tool taking an empty name as the preference "profile:" itself
UpdateUserPreferenceTool_run_coercing(ctx, preference_name, preference_value, t) ==
    LET state_key == "profile:" \o Strip(preference_name)
    IN  IF /\ state_key \in DOMAIN ctx.state
           /\ ctx.state[state_key] = preference_value
        THEN [ctx |-> ctx,
              response |-> create_success_response("update_user_preference", FALSE)]
        ELSE [ctx |-> safe_state_set(
                          safe_state_set_with_persistence_flag(
                              ctx, state_key, preference_value,
                              "Updated user preference"),
                          "temp:last_preference_update", t),
              response |-> create_success_response_with_state_changes(
                               "update_user_preference", TRUE,
                               DictSet(EmptyDict, state_key, preference_value))]

(***************************************************************************)
(* UpdateUserPreferenceTool.run (tools/user_preferences.py), wrapped by    *)
(* handle_tool_error: returns [ctx, response].                             *)
(***************************************************************************)
UpdateUserPreferenceTool_run(ctx, preference_name, preference_value, t) ==
    IF Strip(preference_name) = ""
    THEN [ctx |-> ctx,
          response |-> create_error_response("run", "validation_error")]
    ELSE LET state_key == "profile:" \o Strip(preference_name)
         IN  IF /\ state_key \in DOMAIN ctx.state
                /\ ctx.state[state_key] = preference_value
             THEN [ctx |-> ctx,
                   response |-> create_success_response("update_user_preference", FALSE)]
             ELSE [ctx |-> safe_state_set(
                               safe_state_set_with_persistence_flag(
                                   ctx, state_key, preference_value,
                                   "Updated user preference"),
                               "temp:last_preference_update", t),
                   response |-> create_success_response_with_state_changes(
                                    "update_user_preference", TRUE,
                                    DictSet(EmptyDict, state_key, preference_value))]

(***************************************************************************)
(* callbacks/tool.py                                                       *)
(***************************************************************************)
before_tool_callback(ctx, tool_name, args, t) ==
    LET tool_count == StateGet(ctx.state, "temp:tool_invocation_count", 0) + 1
    IN  CtxSet(CtxSet(CtxSet(CtxSet(ctx,
            "temp:tool_invocation_count", tool_count),
            "temp:last_tool_invoked", tool_name),
            "temp:last_tool_args", args),
            "temp:last_tool_start_time", t)

\* after_tool_callback recording the metrics only: nothing is queued
after_tool_callback_dropping(ctx, tool_name, tool_response, t) ==
    LET start_time == StateGet(ctx.state, "temp:last_tool_start_time", t)
    IN  CtxSet(CtxSet(ctx,
            "temp:last_tool_execution_time", t - start_time),
            "temp:last_tool_result",
            <<tool_response.action, tool_response.status>>)

\* after_tool_callback putting the new entry in front of the pending list
after_tool_callback_prepending(ctx, tool_name, tool_response, t) ==
    LET start_time == StateGet(ctx.state, "temp:last_tool_start_time", t)
        c1 == CtxSet(CtxSet(ctx,
                  "temp:last_tool_execution_time", t - start_time),
                  "temp:last_tool_result",
                  <<tool_response.action, tool_response.status>>)
    IN  IF /\ tool_response._needs_persistence
           /\ tool_response._state_changes.keys /= <<>>
        THEN LET event == create_state_update_event(
                              tool_response._state_changes,
                              "Tool made state changes")
                 pending_events ==
                     StateGet(c1.state, "_pending_persistence_events", <<>>)
             IN  CtxSet(c1, "_pending_persistence_events",
                        <<[event |-> event, tool_name |-> tool_name,
                           timestamp |-> t]>> \o pending_events)
        ELSE c1

\* the first 200 characters of str(tool_response) kept under
\* temp:last_tool_result are abstracted to the response's action and status
after_tool_callback(ctx, tool_name, tool_response, t) ==
    LET start_time == StateGet(ctx.state, "temp:last_tool_start_time", t)
        c1 == CtxSet(CtxSet(ctx,
                  "temp:last_tool_execution_time", t - start_time),
                  "temp:last_tool_result",
                  <<tool_response.action, tool_response.status>>)
    IN  IF /\ tool_response._needs_persistence
           /\ tool_response._state_changes.keys /= <<>>
        THEN LET event == create_state_update_event(
                              tool_response._state_changes,
                              "Tool made state changes")
                 pending_events ==
                     StateGet(c1.state, "_pending_persistence_events", <<>>)
             IN  CtxSet(c1, "_pending_persistence_events",
                        Append(pending_events,
                               [event |-> event, tool_name |-> tool_name,
                                timestamp |-> t]))
        ELSE c1

(***************************************************************************)
(* process_pending_state_persistence (main.py).  failing is the set of     *)
(* positions of the pending list whose append_event raises, cleanup_fails  *)
(* tells whether the append of the cleanup event raises.  The result holds *)
(* the store, the in-memory session and the append_event calls made, in    *)
(* order, each with its event and whether it succeeded.  A raising append  *)
(* stores nothing.  The entries' deltas were written to the in-memory      *)
(* state when they were staged, so the appends leave it as it is.          *)
(***************************************************************************)
RECURSIVE AppendPendingEvents(_, _, _, _, _)
\* for event_data in pending_events: try: append_event(...) except: log
AppendPendingEvents(r, session_id, pending_events, failing, i) ==
    IF i > Len(pending_events) THEN r
    ELSE LET event == pending_events[i].event
             ok == i \notin failing
         IN  AppendPendingEvents(
                 [store |-> IF ok THEN append_event(r.store, session_id, event)
                            ELSE r.store,
                  attempts |-> Append(r.attempts, [event |-> event, ok |-> ok])],
                 session_id, pending_events, failing, i + 1)

RECURSIVE AppendPendingEventsReversed(_, _, _, _, _)
\* the loop above walking the pending list from its end
AppendPendingEventsReversed(r, session_id, pending_events, failing, i) ==
    IF i > Len(pending_events) THEN r
    ELSE LET j == Len(pending_events) + 1 - i
             event == pending_events[j].event
             ok == j \notin failing
         IN  AppendPendingEventsReversed(
                 [store |-> IF ok THEN append_event(r.store, session_id, event)
                            ELSE r.store,
                  attempts |-> Append(r.attempts, [event |-> event, ok |-> ok])],
                 session_id, pending_events, failing, i + 1)

RECURSIVE AppendPendingEventsAborting(_, _, _, _, _)
\* the loop above without its inner try/except: the first failure ends it
AppendPendingEventsAborting(r, session_id, pending_events, failing, i) ==
    IF i > Len(pending_events) THEN r
    ELSE LET event == pending_events[i].event
             ok == i \notin failing
         IN  IF ok
             THEN AppendPendingEventsAborting(
                      [store |-> append_event(r.store, session_id, event),
                       attempts |-> Append(r.attempts, [event |-> event, ok |-> ok])],
                      session_id, pending_events, failing, i + 1)
             ELSE [store |-> r.store,
                   attempts |-> Append(r.attempts, [event |-> event, ok |-> ok])]

cleanup_event ==
    Event("system", "cleanup_pending_events",
          DictSet(EmptyDict, "_pending_persistence_events", <<>>),
          "Processed pending state persistence events")

\* the flush walking the pending list backwards
process_pending_state_persistence_lifo(st, sess, failing, cleanup_fails) ==
    LET pending_events == StateGet(sess.state, "_pending_persistence_events", <<>>)
        r == AppendPendingEventsReversed([store |-> st, attempts |-> <<>>],
                                         sess.id, pending_events, failing, 1)
    IN  IF pending_events = <<>>
        THEN [store |-> st, session |-> sess, attempts |-> <<>>]
        ELSE [store |-> IF cleanup_fails THEN r.store
                        ELSE append_event(r.store, sess.id, cleanup_event),
              session |-> [sess EXCEPT !.state =
                              ("_pending_persistence_events" :> <<>>) @@ @],
              attempts |-> Append(r.attempts,
                                  [event |-> cleanup_event, ok |-> ~cleanup_fails])]

\* the flush whose first failed append ends the whole call (outer except)
process_pending_state_persistence_aborting(st, sess, failing, cleanup_fails) ==
    LET pending_events == StateGet(sess.state, "_pending_persistence_events", <<>>)
        r == AppendPendingEventsAborting([store |-> st, attempts |-> <<>>],
                                         sess.id, pending_events, failing, 1)
    IN  IF pending_events = <<>>
        THEN [store |-> st, session |-> sess, attempts |-> <<>>]
        ELSE IF failing /= {}
        THEN [store |-> r.store, session |-> sess, attempts |-> r.attempts]
        ELSE [store |-> IF cleanup_fails THEN r.store
                        ELSE append_event(r.store, sess.id, cleanup_event),
              session |-> [sess EXCEPT !.state =
                              ("_pending_persistence_events" :> <<>>) @@ @],
              attempts |-> Append(r.attempts,
                                  [event |-> cleanup_event, ok |-> ~cleanup_fails])]

\* the flush without the cleanup of the pending list
process_pending_state_persistence_leaking(st, sess, failing, cleanup_fails) ==
    LET pending_events == StateGet(sess.state, "_pending_persistence_events", <<>>)
        r == AppendPendingEvents([store |-> st, attempts |-> <<>>],
                                 sess.id, pending_events, failing, 1)
    IN  IF pending_events = <<>>
        THEN [store |-> st, session |-> sess, attempts |-> <<>>]
        ELSE [store |-> r.store, session |-> sess, attempts |-> r.attempts]

process_pending_state_persistence(st, sess, failing, cleanup_fails) ==
    LET pending_events == StateGet(sess.state, "_pending_persistence_events", <<>>)
        r == AppendPendingEvents([store |-> st, attempts |-> <<>>],
                                 sess.id, pending_events, failing, 1)
    IN  IF pending_events = <<>>
        THEN [store |-> st, session |-> sess, attempts |-> <<>>]
        ELSE [store |-> IF cleanup_fails THEN r.store
                        ELSE append_event(r.store, sess.id, cleanup_event),
              session |-> [sess EXCEPT !.state =
                              ("_pending_persistence_events" :> <<>>) @@ @],
              attempts |-> Append(r.attempts,
                                  [event |-> cleanup_event, ok |-> ~cleanup_fails])]

(***************************************************************************)
(* Turn-level records.                                                     *)
(***************************************************************************)
NoSession == [id |-> 0, state |-> EmptyMap]

NoTool == [called |-> FALSE, preference_name |-> "", preference_value |-> "",
           before |-> EmptyMap, response |-> create_error_response("", ""),
           after |-> EmptyMap]

NoFlush == [called |-> FALSE, pending |-> <<>>, failing |-> {},
            cleanup_fails |-> FALSE, attempts |-> <<>>,
            log_before |-> <<>>, log_after |-> <<>>, pending_after |-> <<>>]

(***************************************************************************)
(* Python str operations used by the reminder tools (tools/reminders.py),  *)
(* on ASCII strings.                                                       *)
(***************************************************************************)
Chr(s, i) == SubSeq(s, i, i)

ascii_uppercase == "ABCDEFGHIJKLMNOPQRSTUVWXYZ"

ascii_lowercase == "abcdefghijklmnopqrstuvwxyz"

digits == "0123456789"

\* the lower-case letter of each upper-case letter
LowerOf ==
    [c \in {Chr(ascii_uppercase, i) : i \in 1..Len(ascii_uppercase)} |->
         Chr(ascii_lowercase,
             CHOOSE i \in 1..Len(ascii_uppercase) : Chr(ascii_uppercase, i) = c)]

LowerChr(c) == IF c \in DOMAIN LowerOf THEN LowerOf[c] ELSE c

RECURSIVE lower(_)
\* str.lower(), by halves
lower(s) ==
    IF Len(s) <= 1 THEN LowerChr(s)
    ELSE lower(SubSeq(s, 1, Len(s) \div 2))
             \o lower(SubSeq(s, Len(s) \div 2 + 1, Len(s)))

\* sub in text
Contains(sub, text) ==
    \E i \in 1..(Len(text) - Len(sub) + 1) : SubSeq(text, i, i + Len(sub) - 1) = sub

RECURSIVE lstrip(_)
lstrip(s) == IF s /= "" /\ Chr(s, 1) = " " THEN lstrip(Tail(s)) ELSE s

RECURSIVE rstrip(_)
rstrip(s) ==
    IF s /= "" /\ Chr(s, Len(s)) = " " THEN rstrip(SubSeq(s, 1, Len(s) - 1)) ELSE s

\* the value of each digit
ValueOf ==
    [c \in {Chr(digits, i) : i \in 1..Len(digits)} |->
         (CHOOSE i \in 1..Len(digits) : Chr(digits, i) = c) - 1]

IsDigit(c) == c \in DOMAIN ValueOf

DigitValue(c) == ValueOf[c]

RECURSIVE DecimalValue(_, _)
\* the value of a string of digits, acc being the value of the digits read
DecimalValue(s, acc) ==
    IF s = "" THEN acc ELSE DecimalValue(Tail(s), 10 * acc + DigitValue(Chr(s, 1)))

\* int(s): surrounding whitespace, an optional sign, then one or more digits;
\* ok = FALSE stands for ValueError
int(s) ==
    LET t == rstrip(lstrip(s))
        signed == t /= "" /\ Chr(t, 1) \in {"+", "-"}
        body == IF signed THEN Tail(t) ELSE t
        ok == body /= "" /\ \A i \in 1..Len(body) : IsDigit(Chr(body, i))
    IN  [ok |-> ok,
         value |-> IF ~ok THEN 0
                   ELSE IF signed /\ Chr(t, 1) = "-" THEN 0 - DecimalValue(body, 0)
                   ELSE DecimalValue(body, 0)]

(***************************************************************************)
(* The reminder tools (tools/reminders.py).  A reminder is a dict          *)
(* {text, created_at, date_added, completed} (date_added is a rendering of *)
(* created_at and is left out) or, in lists of earlier revisions, a plain  *)
(* string.  A tool call yields [state, response, index, raised]: index is  *)
(* the 0-based index the resolver chose, NoneIndex for None; raised tells  *)
(* that an exception left the tool.                                        *)
(***************************************************************************)
Reminder(text, created_at, completed) ==
    [kind |-> "dict", text |-> text, created_at |-> created_at,
     completed |-> completed]

\* a plain-string reminder
LegacyReminder(text) ==
    [kind |-> "str", text |-> text, created_at |-> 0, completed |-> FALSE]

\* reminder.get("text", reminder) if isinstance(reminder, dict) else reminder
ReminderText(reminder) == reminder.text

NoneIndex == 0 - 1

RECURSIVE BestMatch(_, _, _, _)
\* the content-similarity loop from the i-th reminder on; best is the index
\* chosen so far with its score num/den, raised a ZeroDivisionError
BestMatch(reminders, reminder_reference, i, best) ==
    IF i > Len(reminders) \/ best.raised THEN best
    ELSE LET reminder_text == ReminderText(reminders[i])
         IN  IF Contains(lower(reminder_reference), lower(reminder_text))
             THEN IF Len(reminder_text) = 0
                  THEN [best EXCEPT !.raised = TRUE]
                  ELSE BestMatch(reminders, reminder_reference, i + 1,
                           IF Len(reminder_reference) * best.den
                                  > best.num * Len(reminder_text)
                           THEN [index |-> i - 1,
                                 num |-> Len(reminder_reference),
                                 den |-> Len(reminder_text), raised |-> FALSE]
                           ELSE best)
             ELSE BestMatch(reminders, reminder_reference, i + 1, best)

\* the resolver tried the content match before the number and the words
ResolveReminderTextFirst(reminders, reminder_reference) ==
    LET m == BestMatch(reminders, reminder_reference, 1,
                 [index |-> NoneIndex, num |-> 0, den |-> 1, raised |-> FALSE])
        n == int(reminder_reference)
    IN  IF m.raised \/ m.index /= NoneIndex
        THEN [index |-> m.index, raised |-> m.raised]
        ELSE IF n.ok /\ n.value - 1 >= 0 /\ n.value - 1 < Len(reminders)
        THEN [index |-> n.value - 1, raised |-> FALSE]
        ELSE [index |-> NoneIndex, raised |-> FALSE]

\* "second" and "third" were taken as positions whatever the length of the
\* list
ResolveParsedUnguarded(reminders, reminder_reference, n, ref) ==
    IF n.ok
    THEN [index |-> IF n.value - 1 < 0 \/ n.value - 1 >= Len(reminders)
                    THEN NoneIndex ELSE n.value - 1,
          raised |-> FALSE]
    ELSE IF ref = "first" THEN [index |-> 0, raised |-> FALSE]
    ELSE IF ref = "last" THEN [index |-> Len(reminders) - 1, raised |-> FALSE]
    ELSE IF ref = "second" THEN [index |-> 1, raised |-> FALSE]
    ELSE IF ref = "third" THEN [index |-> 2, raised |-> FALSE]
    ELSE CHOOSE result \in
             {[index |-> m.index, raised |-> m.raised] :
                  m \in {BestMatch(reminders, reminder_reference, 1,
                             [index |-> NoneIndex, num |-> 0, den |-> 1,
                              raised |-> FALSE])}} : TRUE

\* lines 196-226 (update_reminder) and 311-341 (complete_reminder): n is
\* int(reminder_reference), ref is reminder_reference.lower()
ResolveParsed(reminders, reminder_reference, n, ref) ==
    IF n.ok
    THEN [index |-> IF n.value - 1 < 0 \/ n.value - 1 >= Len(reminders)
                    THEN NoneIndex ELSE n.value - 1,
          raised |-> FALSE]
    ELSE IF ref = "first" THEN [index |-> 0, raised |-> FALSE]
    ELSE IF ref = "last" THEN [index |-> Len(reminders) - 1, raised |-> FALSE]
    ELSE IF ref = "second" /\ Len(reminders) > 1
    THEN [index |-> 1, raised |-> FALSE]
    ELSE IF ref = "third" /\ Len(reminders) > 2
    THEN [index |-> 2, raised |-> FALSE]
    ELSE CHOOSE result \in
             {[index |-> m.index, raised |-> m.raised] :
                  m \in {BestMatch(reminders, reminder_reference, 1,
                             [index |-> NoneIndex, num |-> 0, den |-> 1,
                              raised |-> FALSE])}} : TRUE

\* the resolver of update_reminder and complete_reminder, for a non-empty list
ResolveReminder(reminders, reminder_reference) ==
    CHOOSE result \in
        {ResolveParsed(reminders, reminder_reference, n, ref) :
             n \in {int(reminder_reference)},
             ref \in {lower(reminder_reference)}} : TRUE

\* the dict a reminder tool returns: matched_index and count are <<>> when the
\* dict has no such key or holds None under it
ReminderResponse(action, status, matched_index, count) ==
    [action |-> action, status |-> status, matched_index |-> matched_index,
     count |-> count]

ReminderResult(state, response, index, raised) ==
    [state |-> state, response |-> response, index |-> index, raised |-> raised]

\* tool_context.state["user:reminders"] = reminders
\* tool_context.state["temp:last_reminder_update"] = time.time()
StoreReminders(state, reminders, t) ==
    ("temp:last_reminder_update" :> t) @@ ("user:reminders" :> reminders) @@ state

AddReminderTool_run(state, reminder, t) ==
    LET reminders == Append(StateGet(state, "user:reminders", <<>>),
                            Reminder(reminder, t, FALSE))
    IN  ReminderResult(StoreReminders(state, reminders, t),
            ReminderResponse("add_reminder", "success", <<>>, <<Len(reminders)>>),
            Len(reminders) - 1, FALSE)

\* the branch of a reference that was not found stamped the state
UpdateResolvedTouching(state, reminders, r, updated_text, t) ==
    IF r.raised
    THEN ReminderResult(state,
             ReminderResponse("update_reminder", "raised", <<>>, <<>>),
             NoneIndex, TRUE)
    ELSE IF r.index = NoneIndex
    THEN ReminderResult(StoreReminders(state, reminders, t),
             ReminderResponse("update_reminder", "error", <<>>, <<>>),
             NoneIndex, FALSE)
    ELSE ReminderResult(
             StoreReminders(state,
                 [reminders EXCEPT ![r.index + 1] =
                      IF @.kind = "dict" THEN [@ EXCEPT !.text = updated_text]
                      ELSE Reminder(updated_text, t, FALSE)], t),
             ReminderResponse("update_reminder", "success", <<r.index + 1>>, <<>>),
             r.index, FALSE)

\* lines 228-268, the resolver having returned r
UpdateResolved(state, reminders, r, updated_text, t) ==
    IF r.raised
    THEN ReminderResult(state,
             ReminderResponse("update_reminder", "raised", <<>>, <<>>),
             NoneIndex, TRUE)
    ELSE IF r.index = NoneIndex
    THEN ReminderResult(state,
             ReminderResponse("update_reminder", "error", <<>>, <<>>),
             NoneIndex, FALSE)
    ELSE ReminderResult(
             StoreReminders(state,
                 [reminders EXCEPT ![r.index + 1] =
                      IF @.kind = "dict" THEN [@ EXCEPT !.text = updated_text]
                      ELSE Reminder(updated_text, t, FALSE)], t),
             ReminderResponse("update_reminder", "success", <<r.index + 1>>, <<>>),
             r.index, FALSE)

UpdateReminderTool_run(state, reminder_reference, updated_text, t) ==
    IF StateGet(state, "user:reminders", <<>>) = <<>>
    THEN ReminderResult(state,
             ReminderResponse("update_reminder", "error", <<>>, <<0>>),
             NoneIndex, FALSE)
    ELSE CHOOSE result \in
             {UpdateResolved(state, reminders, r, updated_text, t) :
                  reminders \in {state["user:reminders"]},
                  r \in {ResolveReminder(state["user:reminders"],
                                         reminder_reference)}} : TRUE

\* the completed reminder was taken out of the list
CompleteResolvedRemoving(state, reminders, r, t) ==
    IF r.raised
    THEN ReminderResult(state,
             ReminderResponse("complete_reminder", "raised", <<>>, <<>>),
             NoneIndex, TRUE)
    ELSE IF r.index = NoneIndex
    THEN ReminderResult(state,
             ReminderResponse("complete_reminder", "error", <<>>, <<>>),
             NoneIndex, FALSE)
    ELSE ReminderResult(
             StoreReminders(state,
                 SubSeq(reminders, 1, r.index)
                     \o SubSeq(reminders, r.index + 2, Len(reminders)), t),
             ReminderResponse("complete_reminder", "success", <<r.index + 1>>, <<>>),
             r.index, FALSE)

\* lines 343-379, the resolver having returned r
CompleteResolved(state, reminders, r, t) ==
    IF r.raised
    THEN ReminderResult(state,
             ReminderResponse("complete_reminder", "raised", <<>>, <<>>),
             NoneIndex, TRUE)
    ELSE IF r.index = NoneIndex
    THEN ReminderResult(state,
             ReminderResponse("complete_reminder", "error", <<>>, <<>>),
             NoneIndex, FALSE)
    ELSE ReminderResult(
             StoreReminders(state,
                 [reminders EXCEPT ![r.index + 1] =
                      IF @.kind = "dict" THEN [@ EXCEPT !.completed = TRUE]
                      ELSE Reminder(@.text, t, TRUE)], t),
             ReminderResponse("complete_reminder", "success", <<r.index + 1>>, <<>>),
             r.index, FALSE)

CompleteReminderTool_run(state, reminder_reference, t) ==
    IF StateGet(state, "user:reminders", <<>>) = <<>>
    THEN ReminderResult(state,
             ReminderResponse("complete_reminder", "error", <<>>, <<0>>),
             NoneIndex, FALSE)
    ELSE CHOOSE result \in
             {CompleteResolved(state, reminders, r, t) :
                  reminders \in {state["user:reminders"]},
                  r \in {ResolveReminder(state["user:reminders"],
                                         reminder_reference)}} : TRUE

NoRem ==
    [called |-> FALSE, tool |-> "", reminder_reference |-> "", text |-> "",
     before |-> EmptyMap, after |-> EmptyMap,
     response |-> ReminderResponse("", "", <<>>, <<>>),
     index |-> NoneIndex, raised |-> FALSE]

(***************************************************************************)
(* Python re and str operations used by _should_save_session_to_memory     *)
(* (main.py), on ASCII strings.                                            *)
(***************************************************************************)
\* the characters \w matches
WordChrs ==
    {Chr(ascii_uppercase, i) : i \in 1..Len(ascii_uppercase)}
        \cup {Chr(ascii_lowercase, i) : i \in 1..Len(ascii_lowercase)}
        \cup {Chr(digits, i) : i \in 1..Len(digits)} \cup {"_"}

\* the alternative a occurs in s from position i on, with a word boundary on
\* either side (every alternative begins and ends with a word character)
WordAt(a, s, i) ==
    /\ SubSeq(s, i, i + Len(a) - 1) = a
    /\ i = 1 \/ Chr(s, i - 1) \notin WordChrs
    /\ i + Len(a) - 1 = Len(s) \/ Chr(s, i + Len(a)) \notin WordChrs

\* re.search(r'\b(a1|a2|...)\b', s) finds a match
re_search(alternatives, s) ==
    \E a \in alternatives : \E i \in 1..(Len(s) - Len(a) + 1) : WordAt(a, s, i)

\* len(s.split()): the number of maximal runs of characters that are not
\* whitespace
word_count(s) ==
    Cardinality({i \in 1..Len(s) :
                     Chr(s, i) /= " " /\ (i = 1 \/ Chr(s, i - 1) = " ")})

\* lines 537-554
high_value_patterns ==
    << {"goal", "objective", "plan", "strategy", "roadmap", "milestone"},
       {"learn", "understand", "research", "study", "knowledge", "insight"},
       {"decide", "decision", "choice", "option", "consider", "evaluate"},
       {"project", "work", "task", "assignment", "deadline", "meeting"},
       {"improve", "develop", "skill", "growth", "progress", "achievement"},
       {"money", "income", "investment", "business", "opportunity", "revenue"},
       {"ai", "artificial intelligence", "technology", "tool", "automation",
        "software"},
       {"tomorrow", "next week", "next month", "schedule", "calendar",
        "appointment"} >>

\* line 576
question_indicators == {"?", "how", "what", "why", "when", "where", "which"}

\* lines 587-591
personal_indicators ==
    << {"i like", "i prefer", "i want", "i need", "i think", "i believe",
        "i feel", "i love"},
       {"my goal", "my plan", "my idea", "my preference", "my opinion"},
       {"i'm working on", "i'm planning", "i'm considering",
        "i'm interested in"} >>

\* lines 606-610
actionable_patterns ==
    << {"remind", "remember", "note", "save", "store", "track"},
       {"will", "going to", "plan to", "intend to"},
       {"should", "need to", "have to", "must"} >>

\* sum(1 for pattern in patterns if re.search(pattern, message_lower))
PatternScore(patterns, message_lower) ==
    Cardinality({p \in 1..Len(patterns) : re_search(patterns[p], message_lower)})

\* what the classifier computes from the message alone (lines 557, 558, 568,
\* 577, 593, 612)
MessageMetrics(latest_message, message_lower) ==
    [high_value_score |-> PatternScore(high_value_patterns, message_lower),
     word_count |-> word_count(latest_message),
     has_questions |->
         \E indicator \in question_indicators : Contains(indicator, message_lower),
     personal_score |-> PatternScore(personal_indicators, message_lower),
     actionable_score |-> PatternScore(actionable_patterns, message_lower)]

RECURSIVE Filler(_)
\* n words "um" after a first word
Filler(n) == IF n = 0 THEN "" ELSE " um" \o Filler(n - 1)

\* the latest messages: the empty and a short one; two categories of
\* high-value words; one category with 50 and with 49 words; a question
\* word with 30 and with 29 words; a personal marker with 15 and with 14
\* words; two and one kind of actionable words; high-value words inside
\* longer words
Messages ==
    {"", "ok", "my goal is to learn",
     "goal" \o Filler(49), "goal" \o Filler(48),
     "why" \o Filler(29), "why" \o Filler(28),
     "i like" \o Filler(13), "i like" \o Filler(12),
     "remind me i will", "remind me", "goalpost teamwork"}

\* the metrics of the messages
MetricsOf ==
    [latest_message \in Messages |->
         MessageMetrics(latest_message, lower(latest_message))]

\* the session duration had to exceed 300 seconds
_should_save_session_to_memory_late(state, latest_message, t) ==
    LET turn_count == StateGet(state, "conversation_turn_count", 0)
        reminders == StateGet(state, "user:reminders", <<>>)
        session_duration == t - StateGet(state, "session_start_time", t)
        m == MetricsOf[latest_message]
    IN  \/ turn_count >= 3
        \/ Len(reminders) > 0
        \/ m.high_value_score >= 2
        \/ m.word_count >= 50 /\ m.high_value_score >= 1
        \/ m.has_questions /\ turn_count >= 2 /\ m.word_count >= 30
        \/ m.personal_score >= 1 /\ m.word_count >= 15
        \/ session_duration > 300 /\ turn_count >= 2
        \/ m.actionable_score >= 2

\* the turn count had to exceed 3
_should_save_session_to_memory_strict(state, latest_message, t) ==
    LET turn_count == StateGet(state, "conversation_turn_count", 0)
        reminders == StateGet(state, "user:reminders", <<>>)
        session_duration == t - StateGet(state, "session_start_time", t)
        m == MetricsOf[latest_message]
    IN  IF turn_count > 3 THEN TRUE
        ELSE IF Len(reminders) > 0 THEN TRUE
        ELSE IF m.high_value_score >= 2 THEN TRUE
        ELSE IF m.word_count >= 50 /\ m.high_value_score >= 1 THEN TRUE
        ELSE IF m.has_questions /\ turn_count >= 2 /\ m.word_count >= 30 THEN TRUE
        ELSE IF m.personal_score >= 1 /\ m.word_count >= 15 THEN TRUE
        ELSE IF session_duration >= 300 /\ turn_count >= 2 THEN TRUE
        ELSE IF m.actionable_score >= 2 THEN TRUE
        ELSE FALSE

\* _should_save_session_to_memory(session, latest_message) with state the
\* session's state and t the reading of time.time()
_should_save_session_to_memory(state, latest_message, t) ==
    LET turn_count == StateGet(state, "conversation_turn_count", 0)
        reminders == StateGet(state, "user:reminders", <<>>)
        session_duration == t - StateGet(state, "session_start_time", t)
        m == MetricsOf[latest_message]
    IN  IF turn_count >= 3 THEN TRUE
        ELSE IF Len(reminders) > 0 THEN TRUE
        ELSE IF m.high_value_score >= 2 THEN TRUE
        ELSE IF m.word_count >= 50 /\ m.high_value_score >= 1 THEN TRUE
        ELSE IF m.has_questions /\ turn_count >= 2 /\ m.word_count >= 30 THEN TRUE
        ELSE IF m.personal_score >= 1 /\ m.word_count >= 15 THEN TRUE
        ELSE IF session_duration >= 300 /\ turn_count >= 2 THEN TRUE
        ELSE IF m.actionable_score >= 2 THEN TRUE
        ELSE FALSE

NoEval ==
    [called |-> FALSE, latest_message |-> "", time |-> 0, result |-> FALSE,
     prev |-> [called |-> FALSE, time |-> 0, result |-> FALSE]]

NoMem ==
    [called |-> FALSE, via |-> "", session_id |-> 0,
     latest_message |-> "",
     memory_service |-> [present |-> FALSE, rag_corpus |-> FALSE],
     is_uuid_session |-> FALSE, fails |-> {}, calls |-> <<>>,
     evaluated |-> FALSE, should_save |-> FALSE, inner_raised |-> FALSE,
     raised |-> FALSE, memory_before |-> <<>>, memory_after |-> <<>>]

(***************************************************************************)
(* Writers of the state the classifier reads.                              *)
(***************************************************************************)
\* before_model_callback (callbacks/model.py), t being datetime.now()
before_model_callback(state, t) ==
    LET turn_count == StateGet(state, "conversation_turn_count", 0) + 1
        s1 == ("temp:last_query_timestamp" :> t)
                  @@ ("conversation_turn_count" :> turn_count) @@ state
    IN  IF turn_count = 1 /\ "user:last_session" \notin DOMAIN s1
        THEN ("user:last_session" :> t) @@ ("is_first_session" :> TRUE) @@ s1
        ELSE LET last_session == StateGet(s1, "user:last_session", 0)
                 s2 == ("user:last_session" :> t) @@ s1
             IN  IF last_session /= 0
                 THEN ("temp:time_since_last_session" :> t - last_session) @@ s2
                 ELSE s2

\* a reminder as reminders_adk.add_reminder builds it
AdkReminder(text, priority, created_at) ==
    [kind |-> "dict", id |-> created_at, text |-> text, priority |-> priority,
     created_at |-> created_at, completed |-> FALSE]

\* add_reminder (tools/reminders_adk.py)
add_reminder(state, reminder_text, priority, t) ==
    ("profile:reminders" :>
         Append(StateGet(state, "profile:reminders", <<>>),
                AdkReminder(rstrip(lstrip(reminder_text)), priority, t)))
        @@ state

(***************************************************************************)
(* complete_reminder (tools/reminders_adk.py): [state, message].  The id   *)
(* "reminder_<int(time.time())>" of a reminder is modelled by the second   *)
(* of the clock in which it was created.                                   *)
(***************************************************************************)
\* [r for r in reminders if not r.get("completed", False)]
ActiveReminders(reminders) == SelectSeq(reminders, LAMBDA r : ~r.completed)

\* the first reminder of the list whose id is target_id (the loop of lines
\* 104-108 breaks at the first match)
FirstWithId(reminders, target_id) ==
    CHOOSE i \in 1..Len(reminders) :
        /\ reminders[i].id = target_id
        /\ \A j \in 1..(i - 1) : reminders[j].id /= target_id

\* reminder["completed"] = True; reminder["completed_at"] = time.time()
MarkCompleted(reminder, t) ==
    [kind |-> reminder.kind, id |-> reminder.id, text |-> reminder.text,
     priority |-> reminder.priority, created_at |-> reminder.created_at,
     completed |-> TRUE, completed_at |-> t]

complete_reminder(state, reminder_position, t) ==
    LET reminders == StateGet(state, "profile:reminders", <<>>)
        active_reminders == ActiveReminders(reminders)
    IN  IF reminders = <<>>
        THEN [state |-> state, message |-> "no reminders"]
        ELSE IF active_reminders = <<>>
        THEN [state |-> state, message |-> "no active reminders"]
        ELSE IF \/ reminder_position < 1
                \/ reminder_position > Len(active_reminders)
        THEN [state |-> state, message |-> "invalid position"]
        ELSE LET target_reminder == active_reminders[reminder_position]
                 i == FirstWithId(reminders, target_reminder.id)
             IN  [state |-> ("profile:reminders" :>
                                 [reminders EXCEPT ![i] = MarkCompleted(@, t)])
                                @@ state,
                  message |-> "completed"]

(***************************************************************************)
(* Python objects shared by reference.  initialize_session_state puts the  *)
(* list object DEFAULT_USER_PREFERENCES["profile:reminders"] itself into   *)
(* the init delta (state.py line 106), and append_event puts it into the   *)
(* state of the session object it is given; add_reminder and               *)
(* complete_reminder change the list they read in place.  An in-memory     *)
(* session object is [held, state, shared]: shared tells that its          *)
(* profile:reminders is the default list object, whose content is then     *)
(* default_reminders.  get_session yields an object built from the stored  *)
(* data, which shares nothing.                                             *)
(***************************************************************************)
\* the content of the module-level list when the module is loaded
DefaultRemindersList == DEFAULT_USER_PREFERENCES[6][2]

NoObject == [held |-> FALSE, state |-> EmptyMap, shared |-> FALSE]

NoOp == [op |-> "", sid |-> 0, count |-> 0]

\* the state read through a session object
ObjectState(object, default_reminders) ==
    IF object.shared
    THEN ("profile:reminders" :> default_reminders) @@ object.state
    ELSE object.state

\* the session object on which append_event(session, init_event) was called
LocalObject(st, sid) == [held |-> TRUE, state |-> st[sid].state, shared |-> TRUE]

\* session = await session_service.get_session(...) of lines 225-229
ReloadedObject(st, sid) == [held |-> TRUE, state |-> st[sid].state, shared |-> FALSE]

\* the store after append_event serialised an init event that carries the
\* default list object
SerializedDefaults(st, sid, default_reminders) ==
    [st EXCEPT ![sid] =
        [state |-> ("profile:reminders" :> default_reminders) @@ @.state,
         events |-> [i \in 1..Len(@.events) |->
                        IF "profile:reminders" \in DOMAIN @.events[i].delta.val
                        THEN [@.events[i] EXCEPT
                                  !.delta.val["profile:reminders"] = default_reminders]
                        ELSE @.events[i]]]]

(***************************************************************************)
(* find_or_create_session (main.py).                                       *)
(*   st          the session store                                         *)
(*   session_id  <<>> when no id is given, <<id>> otherwise                *)
(*   listing     the ids list_sessions returns, in the store's order       *)
(*   fails       the store calls of this invocation that raise, by site    *)
(*   new_state   the state of a session as create_session returns it       *)
(*   t           the clock                                                 *)
(* The result is [store, calls, outcome, is_new, session_id, state]: calls *)
(* is the sequence of store calls made, each [op, ok]; outcome is          *)
(* "returned" or "raised".  A store call that raises changes nothing;      *)
(* get_session of an id the store does not hold yields no session, on      *)
(* which the code falls into its except clause as for a raised error.      *)
(***************************************************************************)
FailPoints ==
    {"list_sessions", "get_session", "append_migration", "reload_migrated",
     "create_session", "append_init", "reload_created"}

Call(op, ok) == [op |-> op, ok |-> ok]

\* has_sessions of lines 134-142
has_sessions(list_ok, listing) == list_ok /\ Len(listing) > 0

\* most_recent_session taken from the end of the list
most_recent_session_last(listing) == listing[Len(listing)]

\* existing_sessions.sessions[0]
most_recent_session(listing) == listing[1]

\* the try block below without the migration check: the session is returned
\* as get_session found it
LookupExistingUnmigrated(st, sid, fails) ==
    LET get_ok == sid \in 1..Len(st) /\ "get_session" \notin fails
        c1 == <<Call("get_session", get_ok)>>
    IN  IF ~get_ok
        THEN [ok |-> FALSE, store |-> st, calls |-> c1, state |-> EmptyMap]
        ELSE [ok |-> TRUE, store |-> st, calls |-> c1, state |-> st[sid].state]

\* the try block below without its reload: the session object read before
\* the migration event was appended is the one returned
LookupExistingStale(st, sid, fails) ==
    LET get_ok == sid \in 1..Len(st) /\ "get_session" \notin fails
        c1 == <<Call("get_session", get_ok)>>
    IN  IF ~get_ok
        THEN [ok |-> FALSE, store |-> st, calls |-> c1, state |-> EmptyMap]
        ELSE LET migration_event == migrate_existing_session(st[sid].state)
                 append_ok == "append_migration" \notin fails
                 c2 == Append(c1, Call("append_event", append_ok))
             IN  IF IsNone(migration_event)
                 THEN [ok |-> TRUE, store |-> st, calls |-> c1,
                       state |-> st[sid].state]
                 ELSE IF ~append_ok
                 THEN [ok |-> FALSE, store |-> st, calls |-> c2, state |-> EmptyMap]
                 ELSE [ok |-> TRUE,
                       store |-> append_event(st, sid, migration_event),
                       calls |-> c2, state |-> st[sid].state]

\* the try block of lines 147-165 (and 179-197): get_session, migration,
\* reload.  ok = FALSE when the except clause was taken.  A get_session that
\* finds no session raises or returns None, and session.state of None raises
\* in migrate_existing_session: the except clause is taken either way.
LookupExisting(st, sid, fails) ==
    LET get_ok == sid \in 1..Len(st) /\ "get_session" \notin fails
        c1 == <<Call("get_session", get_ok)>>
    IN  IF ~get_ok
        THEN [ok |-> FALSE, store |-> st, calls |-> c1, state |-> EmptyMap]
        ELSE LET migration_event == migrate_existing_session(st[sid].state)
                 append_ok == "append_migration" \notin fails
                 reload_ok == "reload_migrated" \notin fails
                 st2 == append_event(st, sid, migration_event)
                 c2 == Append(c1, Call("append_event", append_ok))
                 c3 == Append(c2, Call("get_session", reload_ok))
             IN  IF IsNone(migration_event)
                 THEN [ok |-> TRUE, store |-> st, calls |-> c1,
                       state |-> st[sid].state]
                 ELSE IF ~append_ok
                 THEN [ok |-> FALSE, store |-> st, calls |-> c2, state |-> EmptyMap]
                 ELSE IF ~reload_ok
                 THEN [ok |-> FALSE, store |-> st2, calls |-> c3, state |-> EmptyMap]
                 ELSE [ok |-> TRUE, store |-> st2, calls |-> c3,
                       state |-> st2[sid].state]

Raised(st, calls) ==
    [store |-> st, calls |-> calls, outcome |-> "raised", is_new |-> FALSE,
     session_id |-> 0, state |-> EmptyMap]

Returned(st, calls, sid, state, is_new) ==
    [store |-> st, calls |-> calls, outcome |-> "returned", is_new |-> is_new,
     session_id |-> sid, state |-> state]

\* the creation block with its errors swallowed: the session is returned
\* whatever append_event and the reload did
CreateSessionSwallowing(st, calls, fails, new_state, t) ==
    LET create_ok == "create_session" \notin fails
        st1 == Append(st, NewSession(new_state))
        sid == Len(st1)
        c1 == Append(calls, Call("create_session", create_ok))
        init_event == initialize_session_state(new_state, t)
        append_ok == "append_init" \notin fails
        st2 == IF append_ok THEN append_event(st1, sid, init_event) ELSE st1
        c2 == Append(c1, Call("append_event", append_ok))
    IN  IF ~create_ok THEN Raised(st, c1)
        ELSE Returned(st2, c2, sid, st2[sid].state, TRUE)

\* lines 203-234: create_session, initialize_session_state, append_event,
\* reload
CreateSession(st, calls, fails, new_state, t) ==
    LET create_ok == "create_session" \notin fails
        st1 == Append(st, NewSession(new_state))
        sid == Len(st1)
        c1 == Append(calls, Call("create_session", create_ok))
        init_event == initialize_session_state(new_state, t)
        append_ok == "append_init" \notin fails
        reload_ok == "reload_created" \notin fails
        st2 == append_event(st1, sid, init_event)
        c2 == Append(c1, Call("append_event", append_ok))
        c3 == Append(c2, Call("get_session", reload_ok))
    IN  IF ~create_ok THEN Raised(st, c1)
        ELSE IF IsNone(init_event) THEN Returned(st1, c1, sid, new_state, TRUE)
        ELSE IF ~append_ok THEN Raised(st1, c2)
        ELSE IF ~reload_ok THEN Raised(st2, c3)
        ELSE Returned(st2, c3, sid, st2[sid].state, TRUE)

find_or_create_session(st, session_id, listing, fails, new_state, t) ==
    LET list_ok == "list_sessions" \notin fails
        c0 == <<Call("list_sessions", list_ok)>>
    IN  IF has_sessions(list_ok, listing)
        THEN LET sid == IF session_id /= <<>> THEN session_id[1]
                        ELSE most_recent_session(listing)
                 r == LookupExisting(st, sid, fails)
             IN  IF r.ok
                 THEN Returned(r.store, c0 \o r.calls, sid, r.state, FALSE)
                 ELSE CreateSession(r.store, c0 \o r.calls, fails, new_state, t)
        ELSE CreateSession(st, c0, fails, new_state, t)

(***************************************************************************)
(* Promotion to the knowledge store: after_agent_callback and              *)
(* _upload_session_to_memory_async (callbacks/agent.py),                   *)
(* maybe_add_session_to_memory and _upload_session_content_to_memory       *)
(* (main.py).                                                              *)
(*   st              the session store                                     *)
(*   mem             the knowledge store                                   *)
(*   memory_service  [present, rag_corpus]: present is FALSE for None,     *)
(*                   rag_corpus tells whether the service has a rag_corpus *)
(*   is_uuid_session whether the session id has the UUID format            *)
(*   fails           the calls of this run that raise                      *)
(* A run yields [calls, memory, evaluated, should_save, raised]: calls is  *)
(* the sequence of calls made, each [op, ok]; evaluated tells that the     *)
(* classifier returned, should_save what it returned; raised tells that    *)
(* an exception left the function.                                         *)
(***************************************************************************)
PromotionFailPoints ==
    {"get_session_service", "get_session", "aiplatform.init", "rag.upload_file",
     "add_session_to_memory", "search_memory"}

NoMemoryService == [present |-> FALSE, rag_corpus |-> FALSE]

Promotion(calls, mem, evaluated, should_save, raised) ==
    [calls |-> calls, memory |-> mem, evaluated |-> evaluated,
     should_save |-> should_save, raised |-> raised]

\* except Exception: the exception is logged and does not leave the function
Swallowed(r) == [r EXCEPT !.raised = FALSE]

\* _upload_session_content_to_memory, lines 400-499
_upload_session_content_to_memory(mem, memory_service, session_id, fails) ==
    Swallowed(
        IF memory_service.rag_corpus
        THEN IF "aiplatform.init" \in fails
             THEN Promotion(<<Call("aiplatform.init", FALSE)>>, mem, TRUE, TRUE,
                            TRUE)
             ELSE IF "rag.upload_file" \in fails
             THEN Promotion(<<Call("aiplatform.init", TRUE),
                              Call("rag.upload_file", FALSE)>>,
                            mem, TRUE, TRUE, TRUE)
             ELSE Promotion(<<Call("aiplatform.init", TRUE),
                              Call("rag.upload_file", TRUE)>>,
                            Append(mem, session_id), TRUE, TRUE, FALSE)
        ELSE Swallowed(
                 Promotion(<<Call("search_memory", "search_memory" \notin fails)>>,
                           mem, TRUE, TRUE, "search_memory" \in fails)))

\* await memory_service.add_session_to_memory(session)
add_session_to_memory(mem, session_id, fails) ==
    IF "add_session_to_memory" \in fails
    THEN Promotion(<<Call("add_session_to_memory", FALSE)>>, mem, TRUE, TRUE, TRUE)
    ELSE Promotion(<<Call("add_session_to_memory", TRUE)>>,
                   Append(mem, session_id), TRUE, TRUE, FALSE)

\* the upload was tried again after it had failed
UploadAcceptedRetrying(mem, memory_service, session_id, is_uuid_session, fails) ==
    LET first == IF is_uuid_session
                 THEN _upload_session_content_to_memory(mem, memory_service,
                                                        session_id, fails)
                 ELSE add_session_to_memory(mem, session_id, fails)
    IN  IF first.calls[Len(first.calls)].ok THEN Swallowed(first)
        ELSE Swallowed([first EXCEPT !.calls = @ \o first.calls])

\* lines 374-392: the upload of a session the classifier accepted
UploadAccepted(mem, memory_service, session_id, is_uuid_session, fails) ==
    Swallowed(
        IF is_uuid_session
        THEN _upload_session_content_to_memory(mem, memory_service, session_id,
                                               fails)
        ELSE add_session_to_memory(mem, session_id, fails))

\* lines 342-394, the body of the try
MaybeAddBody(st, mem, memory_service, session_id, is_uuid_session, latest_message, fails, t) ==
    IF "get_session" \in fails
    THEN Promotion(<<Call("get_session", FALSE)>>, mem, FALSE, FALSE, TRUE)
    ELSE IF session_id \notin 1..Len(st)
    \* get_session returned None and the classifier read session.state
    THEN Promotion(<<Call("get_session", TRUE)>>, mem, FALSE, FALSE, TRUE)
    ELSE IF _should_save_session_to_memory(st[session_id].state, latest_message, t)
    THEN LET u == UploadAccepted(mem, memory_service, session_id,
                                 is_uuid_session, fails)
         IN  [u EXCEPT !.calls = <<Call("get_session", TRUE)>> \o @]
    ELSE Promotion(<<Call("get_session", TRUE)>>, mem, TRUE, FALSE, FALSE)

\* maybe_add_session_to_memory without its outer except clause
maybe_add_session_to_memory_propagating(st, mem, memory_service, session_id, is_uuid_session, latest_message, fails, t) ==
    IF ~memory_service.present
    THEN Promotion(<<>>, mem, FALSE, FALSE, FALSE)
    ELSE MaybeAddBody(st, mem, memory_service, session_id, is_uuid_session,
                      latest_message, fails, t)

\* maybe_add_session_to_memory, lines 316-398
maybe_add_session_to_memory(st, mem, memory_service, session_id, is_uuid_session, latest_message, fails, t) ==
    IF ~memory_service.present
    THEN Promotion(<<>>, mem, FALSE, FALSE, FALSE)
    ELSE Swallowed(MaybeAddBody(st, mem, memory_service, session_id,
                                is_uuid_session, latest_message, fails, t))

\* _upload_session_to_memory_async, lines 160-197: the result carries in
\* inner_raised whether maybe_add_session_to_memory raised
_upload_session_to_memory_async(st, mem, memory_service, session_id, is_uuid_session, latest_message, fails, t) ==
    IF "get_session_service" \in fails
    THEN [inner_raised |-> FALSE]
             @@ Swallowed(Promotion(<<Call("get_session_service", FALSE)>>, mem,
                                    FALSE, FALSE, TRUE))
    ELSE IF ~memory_service.present
    THEN [inner_raised |-> FALSE]
             @@ Promotion(<<Call("get_session_service", TRUE)>>, mem, FALSE, FALSE,
                          FALSE)
    ELSE LET r == maybe_add_session_to_memory(st, mem, memory_service,
                      session_id, is_uuid_session, latest_message, fails, t)
         IN  [inner_raised |-> r.raised]
                 @@ Swallowed([r EXCEPT !.calls =
                                   <<Call("get_session_service", TRUE)>> \o @])

\* after_agent_callback, lines 38-157: found tells whether the invocation
\* context holds the session, schedule_ok whether asyncio.create_task
\* succeeded.  The result is [state, task, returned, raised], task being <<>>
\* or the one task scheduled.
after_agent_callback(sess, found, latest_message, schedule_ok, t) ==
    LET s1 == IF "agent_name" \notin DOMAIN sess.state
              THEN ("agent_name" :> "SimGuideAgent") @@ sess.state
              ELSE sess.state
        s2 == IF "request_counter" \notin DOMAIN s1
              THEN ("request_counter" :> 1) @@ s1
              ELSE [s1 EXCEPT !["request_counter"] = @ + 1]
        s3 == ("last_request_time" :> t) @@ s2
    IN  [state |-> s3,
         task |-> IF found /\ schedule_ok
                  THEN <<[session_id |-> sess.id,
                          latest_message |-> latest_message]>>
                  ELSE <<>>,
         returned |-> "None", raised |-> FALSE]

NoAgent ==
    [called |-> FALSE, returned |-> "", raised |-> FALSE, scheduled |-> FALSE,
     found |-> FALSE, schedule_ok |-> FALSE]

\* hist before the first call
NoCall ==
    [session_id |-> <<>>, listing |-> <<>>, sessions_before |-> 0,
     events_before |-> 0, sessions_after |-> 0, events_after |-> 0,
     calls |-> <<>>, outcome |-> "none", is_new |-> FALSE,
     returned_id |-> 0, state |-> EmptyMap]

NoPrev ==
    [session_id |-> <<>>, sessions_before |-> 0, succeeded |-> FALSE,
     outcome |-> "none", is_new |-> FALSE, state |-> EmptyMap]

NoHist == [n |-> 0, prev |-> NoPrev, last |-> NoCall]

(***************************************************************************)
(* Initial session states: what earlier revisions of the program can have  *)
(* left in a stored session.  The presence of the first MaxSeedKeys keys   *)
(* of SeedKeyOrder varies; migration_version is absent or in 0..CURRENT.   *)
(***************************************************************************)
SeedKeyOrder ==
    << "user:name", "profile:name", "profile:language_preference",
       "app:version", "system:version", "user:language_preference",
       "user:reminders", "profile:reminders", "profile:conversation_style",
       "user:timezone", "profile:timezone" >>

SeedValue(k) ==
    CASE k = "user:name" -> "Musa"
      [] k = "profile:name" -> "Zainab"
      [] k = "profile:language_preference" -> "af"
      [] k = "user:language_preference" -> "zu"
      [] k = "app:version" -> "0.9.0"
      [] k = "system:version" -> "0.9.5"
      [] k = "user:reminders" -> <<"Call John">>
      [] k = "profile:reminders" -> <<"Buy milk">>
      [] k = "profile:conversation_style" -> "concise"
      [] k = "user:timezone" -> "UTC+1"
      [] k = "profile:timezone" -> "UTC"

Min(a, b) == IF a < b THEN a ELSE b

SeedKeys(n) == {SeedKeyOrder[i] : i \in 1..Min(n, Len(SeedKeyOrder))}

SeedState(present, hasVersion, version) ==
    [k \in present |-> SeedValue(k)]
        @@ (IF hasVersion THEN "migration_version" :> version ELSE EmptyMap)

SeedStates(n) ==
    {SeedState(P, h, v) : P \in SUBSET SeedKeys(n), h \in BOOLEAN,
                          v \in 0..CURRENT_MIGRATION_VERSION}

(***************************************************************************)
(* Specification SpecMig: the migration functions applied to one stored    *)
(* session.                                                                *)
(***************************************************************************)
NoUpd == [called |-> FALSE, current_version |-> 0, target_version |-> 0,
          existing_state |-> EmptyMap, updates |-> EmptyDict]

NoMig == [called |-> FALSE, before |-> EmptyMap, event |-> NoneEvent,
          after |-> EmptyMap]

NoInit == [called |-> FALSE, before |-> EmptyMap, event |-> NoneEvent,
           after |-> EmptyMap]

InitMig ==
    /\ store \in {<<NewSession(s)>> : s \in SeedStates(MaxSeedKeys)}
    /\ now = 0
    /\ lastUpd = NoUpd
    /\ lastMig = NoMig
    /\ lastInit = NoInit
    /\ session = NoSession
    /\ lastTool = NoTool
    /\ lastFlush = NoFlush
    /\ lastRem = NoRem
    /\ lastEval = NoEval
    /\ lastAgent = NoAgent
    /\ tasks = <<>>
    /\ memory = <<>>
    /\ lastMem = NoMem
    /\ objects = <<>>
    /\ defaultReminders = DefaultRemindersList
    /\ lastOp = NoOp
    /\ hist = NoHist

\* a call get_migration_updates(cv, tv, session.state)
CallGetMigrationUpdates ==
    \E cv \in 0..MaxVersionArg, tv \in 0..MaxVersionArg :
        /\ lastUpd' = [called |-> TRUE, current_version |-> cv,
                       target_version |-> tv,
                       existing_state |-> store[1].state,
                       updates |-> get_migration_updates(cv, tv, store[1].state)]
        /\ UNCHANGED <<shareVars, memVars, store, now, lastMig, lastInit, turnVars, bootVars>>

\* migrate_existing_session(session) followed, when it returns an event, by
\* append_event(session, migration_event), as find_or_create_session does
CallMigrateExistingSession ==
    LET event == migrate_existing_session(store[1].state)
        st2   == IF IsNone(event) THEN store ELSE append_event(store, 1, event)
    IN  /\ store' = st2
        /\ lastMig' = [called |-> TRUE, before |-> store[1].state,
                       event |-> event, after |-> st2[1].state]
        /\ UNCHANGED <<shareVars, memVars, now, lastUpd, lastInit, turnVars, bootVars>>

NextMig == CallGetMigrationUpdates \/ CallMigrateExistingSession

SpecMig == InitMig /\ [][NextMig]_vars

(***************************************************************************)
(* C1: the delta of get_migration_updates contains no key present in the   *)
(* existing state, for every current and target version; and applying the  *)
(* event of migrate_existing_session keeps every key that was present and  *)
(* leaves each of them, migration_version excepted, with its value.        *)
(***************************************************************************)
C1_NonDestructiveMigration ==
    /\ lastUpd.called =>
           /\ DOMAIN lastUpd.updates.val \cap DOMAIN lastUpd.existing_state = {}
           /\ {lastUpd.updates.keys[i] : i \in 1..Len(lastUpd.updates.keys)}
                  = DOMAIN lastUpd.updates.val
    /\ lastMig.called =>
           /\ DOMAIN lastMig.before \subseteq DOMAIN lastMig.after
           /\ \A k \in DOMAIN lastMig.before \ {"migration_version"} :
                  lastMig.after[k] = lastMig.before[k]

\* a migration that emitted keys ran on a state that already held other keys
C1_Witness ==
    /\ lastUpd.called
    /\ lastUpd.updates.keys /= <<>>
    /\ "profile:language_preference" \in DOMAIN lastUpd.existing_state
    /\ lastUpd.current_version < 2 /\ lastUpd.target_version >= 2
    /\ lastMig.called
    /\ ~IsNone(lastMig.event)
    /\ Len(lastMig.event.delta.keys) > 1
    /\ DOMAIN lastMig.before \ {"migration_version"} /= {}

(***************************************************************************)
(* C2: migrate_existing_session returns None exactly when the stored       *)
(* version is not below CURRENT_MIGRATION_VERSION; when it returns an      *)
(* event, the state with the event's delta applied has migration_version = *)
(* CURRENT_MIGRATION_VERSION and a second call on it returns None.         *)
(***************************************************************************)
C2_MonotonicVersion ==
    lastMig.called =>
        /\ IsNone(lastMig.event) <=>
               StateGet(lastMig.before, "migration_version", 0)
                   >= CURRENT_MIGRATION_VERSION
        /\ IsNone(lastMig.event) => lastMig.after = lastMig.before
        /\ ~IsNone(lastMig.event) =>
               /\ "migration_version" \in DOMAIN lastMig.after
               /\ lastMig.after["migration_version"] = CURRENT_MIGRATION_VERSION
               /\ IsNone(migrate_existing_session(lastMig.after))

\* a session below the current version was migrated
C2_Witness ==
    /\ lastMig.called
    /\ ~IsNone(lastMig.event)
    /\ StateGet(lastMig.before, "migration_version", 0) < CURRENT_MIGRATION_VERSION
    /\ store[1].state = lastMig.after

(***************************************************************************)
(* Specification SpecQueue: one turn-holding session; tools stage changes  *)
(* and the pending queue is flushed.                                       *)
(***************************************************************************)
TempKeys ==
    {"temp:tool_invocation_count", "temp:last_tool_invoked", "temp:last_tool_args",
     "temp:last_tool_start_time", "temp:last_tool_execution_time",
     "temp:last_tool_result", "temp:last_preference_update"}

RECURSIVE TrimTemp(_, _, _)
\* the delta of an event without its temp: keys, which are never persisted
TrimTemp(acc, delta, i) ==
    IF i > Len(delta.keys) THEN acc
    ELSE TrimTemp(IF delta.keys[i] \in TempKeys THEN acc
                  ELSE DictSet(acc, delta.keys[i], delta.val[delta.keys[i]]),
                  delta, i + 1)

\* the state of a session created and initialized at time 0
InitializedState == ApplyDelta(EmptyMap, initialize_session_state(EmptyMap, 0).delta)

InitQueue ==
    /\ store = <<NewSession(InitializedState)>>
    /\ now = 0
    /\ lastUpd = NoUpd
    /\ lastMig = NoMig
    /\ lastInit = NoInit
    /\ session = [id |-> 1, state |-> InitializedState]
    /\ lastTool = NoTool
    /\ lastFlush = NoFlush
    /\ lastRem = NoRem
    /\ lastEval = NoEval
    /\ lastAgent = NoAgent
    /\ tasks = <<>>
    /\ memory = <<>>
    /\ lastMem = NoMem
    /\ objects = <<>>
    /\ defaultReminders = DefaultRemindersList
    /\ lastOp = NoOp
    /\ hist = NoHist

\* One invocation of the update_user_preference tool on the session of the
\* turn: before_tool_callback, the tool, after_tool_callback.  The writes go
\* to the in-memory state; persisted tells whether the session store also
\* recorded the invocation's state delta (the event of the tool's response).
StageWith(preference_name, preference_value, persisted) ==
    /\ StateGet(session.state, "temp:tool_invocation_count", 0) < MaxToolCalls
    /\ LET c0 == [state |-> session.state, delta |-> EmptyDict]
           c1 == before_tool_callback(c0, "update_user_preference",
                                      <<preference_name, preference_value>>, now)
           r  == UpdateUserPreferenceTool_run(c1, preference_name,
                                              preference_value, now)
           c2 == after_tool_callback(r.ctx, "update_user_preference",
                                     r.response, now)
       IN  /\ session' = [session EXCEPT !.state = c2.state]
           /\ store' = IF persisted
                       THEN append_event(store, session.id,
                                Event("agent", "tool_response",
                                      TrimTemp(EmptyDict, c2.delta, 1), ""))
                       ELSE store
           /\ lastTool' = [called |-> TRUE,
                           preference_name |-> preference_name,
                           preference_value |-> preference_value,
                           before |-> session.state,
                           response |-> r.response,
                           after |-> c2.state]
    /\ UNCHANGED <<memVars, now, migVars, lastFlush, lastRem, bootVars>>

ToolUpdateUserPreference ==
    \E preference_name \in PreferenceNames, preference_value \in PreferenceValues,
       persisted \in BOOLEAN :
        /\ StageWith(preference_name, preference_value, persisted)
        /\ UNCHANGED shareVars

\* process_pending_state_persistence at the end of the turn, the appends of
\* the positions in failing and, with cleanup_fails, of the cleanup event
\* raising
FlushWith(failing, cleanup_fails) ==
    LET r == process_pending_state_persistence(store, session, failing,
                                               cleanup_fails)
    IN  /\ store' = r.store
        /\ session' = r.session
        /\ lastFlush' = [called |-> TRUE,
                         pending |-> StateGet(session.state,
                                         "_pending_persistence_events", <<>>),
                         failing |-> failing,
                         cleanup_fails |-> cleanup_fails,
                         attempts |-> r.attempts,
                         log_before |-> store[session.id].events,
                         log_after |-> r.store[session.id].events,
                         pending_after |-> StateGet(r.session.state,
                                         "_pending_persistence_events", <<>>)]
        /\ UNCHANGED <<memVars, now, migVars, lastTool, lastRem, bootVars>>

Flush ==
    \E failing \in SUBSET (1..Len(StateGet(session.state,
                                          "_pending_persistence_events", <<>>))),
       cleanup_fails \in BOOLEAN :
        /\ FlushWith(failing, cleanup_fails)
        /\ UNCHANGED shareVars

NextQueue == ToolUpdateUserPreference \/ Flush

SpecQueue == InitQueue /\ [][NextQueue]_vars

(***************************************************************************)
(* Helpers of the queue claims.                                            *)
(***************************************************************************)
\* the events a flush added to the session's log
Appended(f) == SubSeq(f.log_after, Len(f.log_before) + 1, Len(f.log_after))

PendingEventsOf(pending) == [i \in 1..Len(pending) |-> pending[i].event]

IsCleanupEvent(e) ==
    /\ e.delta.keys = <<"_pending_persistence_events">>
    /\ e.delta.val["_pending_persistence_events"] = <<>>

RECURSIVE SucceededEvents(_, _)
\* the events of the successful attempts among the first n, in order
SucceededEvents(attempts, n) ==
    IF n = 0 THEN <<>>
    ELSE IF attempts[n].ok
         THEN Append(SucceededEvents(attempts, n - 1), attempts[n].event)
         ELSE SucceededEvents(attempts, n - 1)

RECURSIVE ProjectState(_, _)
\* the state projected from an event log: the ordered fold of its deltas
ProjectState(events, n) ==
    IF n = 0 THEN EmptyMap
    ELSE ApplyDelta(ProjectState(events, n - 1), events[n].delta)

PersistedPending(events) ==
    StateGet(ProjectState(events, Len(events)), "_pending_persistence_events", <<>>)

(***************************************************************************)
(* C3: a flush of a non-empty pending list whose appends all succeed adds  *)
(* to the session's event log the events of the entries in the order in    *)
(* which they were staged, then exactly one cleanup event whose delta is   *)
(* {_pending_persistence_events: []}, and nothing else.                    *)
(***************************************************************************)
C3_FlushFifoThenCleanup ==
    (/\ lastFlush.called
     /\ lastFlush.pending /= <<>>
     /\ lastFlush.failing = {}
     /\ ~lastFlush.cleanup_fails) =>
        LET n == Len(lastFlush.pending)
            added == Appended(lastFlush)
        IN  /\ SubSeq(lastFlush.log_after, 1, Len(lastFlush.log_before))
                   = lastFlush.log_before
            /\ Len(added) = n + 1
            /\ SubSeq(added, 1, n) = PendingEventsOf(lastFlush.pending)
            /\ IsCleanupEvent(added[n + 1])
            /\ \A i \in 1..n : ~IsCleanupEvent(added[i])

\* two different entries were staged and flushed without failure
C3_Witness ==
    /\ lastFlush.called
    /\ Len(lastFlush.pending) >= 2
    /\ lastFlush.pending[1].event /= lastFlush.pending[2].event
    /\ lastFlush.failing = {}
    /\ ~lastFlush.cleanup_fails
    /\ Len(Appended(lastFlush)) = Len(lastFlush.pending) + 1

(***************************************************************************)
(* C4: whichever appends of pending entries raise, the flush attempts the  *)
(* append of every entry exactly once and in order (a failed entry is not  *)
(* retried), the events of the other entries reach the log in their        *)
(* original relative order, the in-memory pending list is reset to empty,  *)
(* and the cleanup event is appended after them (its own append is made    *)
(* in every case and lands unless that very call raises).                  *)
(***************************************************************************)
C4_PartialFailureIsolation ==
    (lastFlush.called /\ lastFlush.pending /= <<>>) =>
        LET n == Len(lastFlush.pending)
            att == lastFlush.attempts
            added == Appended(lastFlush)
        IN  /\ Len(att) = n + 1
            /\ \A i \in 1..n : /\ att[i].event = lastFlush.pending[i].event
                               /\ att[i].ok = (i \notin lastFlush.failing)
            /\ IsCleanupEvent(att[n + 1].event)
            /\ att[n + 1].ok = ~lastFlush.cleanup_fails
            /\ added = SucceededEvents(att, n + 1)
            /\ Len(added) = (n - Cardinality(lastFlush.failing))
                              + (IF lastFlush.cleanup_fails THEN 0 ELSE 1)
            /\ ~lastFlush.cleanup_fails => IsCleanupEvent(added[Len(added)])
            /\ lastFlush.pending_after = <<>>

\* the append of one of two pending entries failed and the other one and the
\* cleanup event were appended
C4_Witness ==
    /\ lastFlush.called
    /\ Len(lastFlush.pending) >= 2
    /\ lastFlush.failing /= {}
    /\ Cardinality(lastFlush.failing) < Len(lastFlush.pending)
    /\ ~lastFlush.cleanup_fails
    /\ Len(Appended(lastFlush)) >= 2
    /\ lastFlush.pending_after = <<>>

(***************************************************************************)
(* C5: after update_user_preference staged a change of key k to value v    *)
(* (followed by after_tool_callback), the in-memory state maps k to v for  *)
(* the rest of the turn, and the pending list has grown by exactly one     *)
(* entry, at its end, whose event delta is {k: v}.                         *)
(***************************************************************************)
C5_StageReadYourWrite ==
    (lastTool.called /\ lastTool.response.changed) =>
        LET k == "profile:" \o Strip(lastTool.preference_name)
            v == lastTool.preference_value
            before == StateGet(lastTool.before, "_pending_persistence_events", <<>>)
            after == StateGet(lastTool.after, "_pending_persistence_events", <<>>)
        IN  /\ k \in DOMAIN session.state
            /\ session.state[k] = v
            /\ lastTool.after[k] = v
            /\ Len(after) = Len(before) + 1
            /\ SubSeq(after, 1, Len(before)) = before
            /\ after[Len(after)].event.delta.keys = <<k>>
            /\ after[Len(after)].event.delta.val[k] = v

\* a second change was staged behind a pending one, and the value was read
\* back after a flush of the same turn
C5_Witness ==
    /\ lastTool.called
    /\ lastTool.response.changed
    /\ Len(StateGet(lastTool.before, "_pending_persistence_events", <<>>)) >= 1
    /\ lastFlush.called
    /\ lastFlush.pending /= <<>>
    /\ Len(lastFlush.pending)
           = Len(StateGet(lastTool.after, "_pending_persistence_events", <<>>))

BootSeedStates ==
    {SeedState({"user:name"}, FALSE, 0),
     SeedState({"user:name"}, TRUE, 0),
     SeedState({"user:name"}, TRUE, 1),
     SeedState({"user:name", "profile:name"}, TRUE, 2),
     InitializedState}

\* The orders in which list_sessions can return the n sessions of the user:
\* the code reads the first element only, so one order per first element.
Listings(n) ==
    IF n = 0 THEN {<<>>}
    ELSE {[i \in 1..n |-> IF i = 1 THEN first
                          ELSE IF i <= first THEN i - 1 ELSE i] : first \in 1..n}

\* The failure patterns of one call.  The first store call that raises in
\* the lookup block ends that block and the first that raises in the
\* creation block ends the call, so a pattern names at most one call site
\* of each block.
LookupSites == {"list_sessions", "get_session", "append_migration", "reload_migrated"}

CreationSites == {"create_session", "append_init", "reload_created"}

FailSets ==
    {F \in SUBSET FailPoints : /\ Cardinality(F \cap LookupSites) <= 1
                               /\ Cardinality(F \cap CreationSites) <= 1}

\* the state of a session as create_session returns it
NewSessionStates == {EmptyMap}

\* The arguments of a call and what its list_sessions returns: the id of a
\* stored session or of none, or no id.  With an id the code reads of the
\* list only whether it is empty, so its order varies without an id only.
CallArguments(n) ==
    {[session_id |-> <<i>>, listing |-> [j \in 1..n |-> j]] : i \in 1..(n + 1)}
        \cup {[session_id |-> <<>>, listing |-> l] : l \in Listings(n)}

RECURSIVE CountEvents(_, _)
\* the number of events in the logs of the first n sessions
CountEvents(st, n) ==
    IF n = 0 THEN 0 ELSE CountEvents(st, n - 1) + Len(st[n].events)

\* every store call of the trace succeeded
AllSucceeded(calls) == \A i \in 1..Len(calls) : calls[i].ok

InitBoot ==
    /\ store \in {<<>>} \cup {<<NewSession(s)>> : s \in BootSeedStates}
    /\ now = 0
    /\ lastUpd = NoUpd
    /\ lastMig = NoMig
    /\ lastInit = NoInit
    /\ session = NoSession
    /\ lastTool = NoTool
    /\ lastFlush = NoFlush
    /\ lastRem = NoRem
    /\ lastEval = NoEval
    /\ lastAgent = NoAgent
    /\ tasks = <<>>
    /\ memory = <<>>
    /\ lastMem = NoMem
    /\ objects = <<>>
    /\ defaultReminders = DefaultRemindersList
    /\ lastOp = NoOp
    /\ hist = NoHist

\* one call.  hist.last keeps its arguments, the number of sessions and of
\* events the store held before and after it, and its result; hist.prev
\* keeps, of the call before it, the session id it was given, the number of
\* sessions it found, whether all its store calls succeeded and its result.
FindOrCreateSession ==
    \E args \in CallArguments(Len(store)),
       fails \in FailSets,
       new_state \in NewSessionStates :
        /\ hist.n < MaxCalls
        /\ \E r \in {find_or_create_session(store, args.session_id, args.listing,
                                            fails, new_state, now)} :
               /\ store' = r.store
               /\ hist' = [n |-> hist.n + 1,
                           prev |-> [session_id |-> hist.last.session_id,
                                     sessions_before |-> hist.last.sessions_before,
                                     succeeded |-> /\ hist.n > 0
                                                   /\ AllSucceeded(hist.last.calls),
                                     outcome |-> hist.last.outcome,
                                     is_new |-> hist.last.is_new,
                                     state |-> hist.last.state],
                           last |-> [session_id |-> args.session_id,
                                     listing |-> args.listing,
                                     sessions_before |-> Len(store),
                                     events_before |-> CountEvents(store, Len(store)),
                                     sessions_after |-> Len(r.store),
                                     events_after |-> CountEvents(r.store, Len(r.store)),
                                     calls |-> r.calls,
                                     outcome |-> r.outcome,
                                     is_new |-> r.is_new,
                                     returned_id |-> r.session_id,
                                     state |-> r.state]]
        /\ UNCHANGED <<shareVars, memVars, now, migVars, turnVars>>

NextBoot == FindOrCreateSession

SpecBoot == InitBoot /\ [][NextBoot]_vars

(***************************************************************************)
(* Readings of a recorded call c.                                          *)
(***************************************************************************)
GivenSessionId(c) == c.session_id /= <<>>

\* the id given is the id of a session the store held when the call began
GivenExistingId(c) ==
    GivenSessionId(c) /\ c.session_id[1] \in 1..c.sessions_before

\* the positions of the calls of op in the trace
CallsOf(c, op) == {i \in 1..Len(c.calls) : c.calls[i].op = op}

\* list_sessions is the first store call of every call
ListFailed(c) == ~c.calls[1].ok

\* the lookup: the get_session that follows list_sessions
LookupAttempted(c) == Len(c.calls) >= 2 /\ c.calls[2].op = "get_session"

LookupFailed(c) == LookupAttempted(c) /\ ~c.calls[2].ok

\* the store calls of the creation block all succeeded
CreationSucceeded(c) ==
    \A k \in CallsOf(c, "create_session") :
        \A i \in k..Len(c.calls) : c.calls[i].ok

\* C7: two calls in succession with the id of an existing session, all store
\* calls succeeding, both return is_new = FALSE with equal session state,
\* and the second call adds no session and appends no event.
C7_IdempotentBootstrap ==
    ( /\ hist.n >= 2
      /\ GivenExistingId(hist.prev)
      /\ hist.prev.succeeded
      /\ hist.last.session_id = hist.prev.session_id
      /\ AllSucceeded(hist.last.calls) )
    => /\ hist.prev.outcome = "returned" /\ ~hist.prev.is_new
       /\ hist.last.outcome = "returned" /\ ~hist.last.is_new
       /\ hist.last.returned_id = hist.last.session_id[1]
       /\ hist.last.state = hist.prev.state
       /\ hist.last.events_after = hist.last.events_before
       /\ hist.last.sessions_after = hist.last.sessions_before

\* the first of the two calls migrated the session, the second found it
\* migrated
C7_Witness ==
    /\ hist.n >= 2
    /\ GivenExistingId(hist.prev)
    /\ hist.prev.succeeded
    /\ hist.last.session_id = hist.prev.session_id
    /\ AllSucceeded(hist.last.calls)
    /\ hist.last.events_before > 0
    /\ hist.last.state["migration_version"] = CURRENT_MIGRATION_VERSION
    /\ "profile:name" \in DOMAIN hist.last.state

\* C8: given a session id the call attempts a lookup of that id; if the
\* lookup succeeds it returns that session with is_new = FALSE and creates
\* no session, whatever list_sessions returned or raised; if the lookup
\* fails it creates a session and (creation succeeding) returns it with
\* is_new = TRUE.  Stated for calls whose store calls other than
\* list_sessions and the lookup all succeed.
C8_DirectLookup ==
    ( /\ hist.n >= 1
      /\ GivenSessionId(hist.last)
      /\ \A i \in 2..Len(hist.last.calls) :
             hist.last.calls[i].ok \/ (i = 2 /\ LookupAttempted(hist.last)) )
    => /\ GivenExistingId(hist.last) => LookupAttempted(hist.last)
       /\ (LookupAttempted(hist.last) /\ hist.last.calls[2].ok)
              => /\ hist.last.outcome = "returned"
                 /\ ~hist.last.is_new
                 /\ hist.last.returned_id = hist.last.session_id[1]
                 /\ CallsOf(hist.last, "create_session") = {}
       /\ LookupFailed(hist.last)
              => /\ hist.last.outcome = "returned"
                 /\ hist.last.is_new
                 /\ CallsOf(hist.last, "create_session") /= {}

\* list_sessions raised: the session whose id was given exists, no lookup
\* of it was made and a new session was returned
C8_Witness ==
    /\ hist.n >= 1
    /\ GivenExistingId(hist.last)
    /\ ListFailed(hist.last)
    /\ ~LookupAttempted(hist.last)
    /\ hist.last.outcome = "returned"
    /\ hist.last.is_new
    /\ hist.last.returned_id /= hist.last.session_id[1]

C10_LookupFallbackCreationFatal ==
    hist.n >= 1
    => /\ (ListFailed(hist.last) \/ LookupFailed(hist.last))
              => /\ CallsOf(hist.last, "create_session") /= {}
                 /\ CreationSucceeded(hist.last)
                        => hist.last.outcome = "returned" /\ hist.last.is_new
       /\ \A k \in CallsOf(hist.last, "create_session") :
              \A i \in {k, k + 1} \cap (1..Len(hist.last.calls)) :
                  ~hist.last.calls[i].ok
                      => /\ hist.last.outcome = "raised"
                         /\ i = Len(hist.last.calls)
                         /\ hist.last.sessions_after
                                = hist.last.sessions_before + (i - k)

\* the lookup of an existing session raised, the session was created and the
\* append of its initialization event raised
C10_Witness ==
    /\ hist.n >= 1
    /\ GivenExistingId(hist.last)
    /\ LookupFailed(hist.last)
    /\ \E k \in CallsOf(hist.last, "create_session") :
           /\ hist.last.calls[k].ok
           /\ Len(hist.last.calls) = k + 1
           /\ hist.last.calls[k + 1].op = "append_event"
           /\ ~hist.last.calls[k + 1].ok
    /\ hist.last.outcome = "raised"

\* C11: every call ends, after at most one list_sessions call, at most one
\* create_session call and at most one appended event, with a returned
\* session or an error raised by the creation block.
C11_BoundedCall ==
    hist.n >= 1
    => /\ Cardinality(CallsOf(hist.last, "list_sessions")) <= 1
       /\ Cardinality(CallsOf(hist.last, "create_session")) <= 1
       /\ hist.last.events_after - hist.last.events_before <= 1
       /\ hist.last.outcome \in {"returned", "raised"}
       /\ hist.last.outcome = "raised"
              => /\ CallsOf(hist.last, "create_session") /= {}
                 /\ ~CreationSucceeded(hist.last)

\* the migration event was appended to the fetched session, its reload
\* raised, and the initialization event was appended to a new session
C11_Witness ==
    /\ hist.n >= 1
    /\ LookupAttempted(hist.last)
    /\ hist.last.calls[2].ok
    /\ Cardinality(CallsOf(hist.last, "append_event")) = 2
    /\ hist.last.events_after = hist.last.events_before + 2
    /\ hist.last.outcome = "returned"
    /\ hist.last.is_new
(***************************************************************************)
(* Specification SpecLife: the operations that write migration_version,    *)
(* in any order and any number of times, on the sessions of one user:      *)
(* find_or_create_session, and initialize_session_state and                *)
(* migrate_existing_session followed by the append of the event they       *)
(* return.  initialize_session_state is applied to a session that holds no *)
(* initialization event yet.                                               *)
(***************************************************************************)
\* stored states of earlier revisions: a name under the old key, the new key
\* or both, at every version, and the state of an initialized session
LifeSeedStates ==
    {SeedState(P, h, v) : P \in SUBSET {"user:name", "profile:name"},
                          h \in BOOLEAN, v \in 0..CURRENT_MIGRATION_VERSION}
        \cup {InitializedState}

InitLife ==
    /\ store \in {<<>>} \cup {<<NewSession(s)>> : s \in LifeSeedStates}
    /\ now = 0
    /\ lastUpd = NoUpd
    /\ lastMig = NoMig
    /\ lastInit = NoInit
    /\ session = NoSession
    /\ lastTool = NoTool
    /\ lastFlush = NoFlush
    /\ lastRem = NoRem
    /\ lastEval = NoEval
    /\ lastAgent = NoAgent
    /\ tasks = <<>>
    /\ memory = <<>>
    /\ lastMem = NoMem
    /\ objects = <<>>
    /\ defaultReminders = DefaultRemindersList
    /\ lastOp = NoOp
    /\ hist = NoHist

\* the initialization events in the log of a session
InitEvents(sess) ==
    {j \in 1..Len(sess.events) :
         sess.events[j].invocation_id = "session_initialization"}

\* a find_or_create_session call, by its effect on the store
Bootstrap ==
    \E args \in CallArguments(Len(store)),
       fails \in FailSets,
       new_state \in NewSessionStates :
        /\ \E r \in {find_or_create_session(store, args.session_id, args.listing,
                                            fails, new_state, now)} :
               /\ Len(r.store) <= MaxSessions
               /\ store' = r.store
        /\ UNCHANGED <<shareVars, memVars, now, migVars, turnVars, bootVars>>

\* initialize_session_state(session) and append_event(session, init_event)
InitializeStored ==
    \E i \in 1..Len(store) :
        /\ InitEvents(store[i]) = {}
        /\ \E event \in {initialize_session_state(store[i].state, now)} :
               /\ store' = IF IsNone(event) THEN store
                           ELSE append_event(store, i, event)
               /\ lastInit' = [called |-> TRUE, before |-> store[i].state,
                               event |-> event, after |-> store'[i].state]
        /\ UNCHANGED <<shareVars, memVars, now, lastUpd, lastMig, turnVars, bootVars>>

\* migrate_existing_session(session) and append_event(session, migration_event)
MigrateStored ==
    \E i \in 1..Len(store) :
        /\ \E event \in {migrate_existing_session(store[i].state)} :
               /\ ~IsNone(event)
               /\ store' = append_event(store, i, event)
               /\ lastMig' = [called |-> TRUE, before |-> store[i].state,
                              event |-> event, after |-> store'[i].state]
        /\ UNCHANGED <<shareVars, memVars, now, lastUpd, lastInit, turnVars, bootVars>>

NextLife == Bootstrap \/ InitializeStored \/ MigrateStored

SpecLife == InitLife /\ [][NextLife]_vars
\* the keys of DEFAULT_USER_PREFERENCES and DEFAULT_APP_STATE
DefaultKeys ==
    {DEFAULT_USER_PREFERENCES[i][1] : i \in 1..Len(DEFAULT_USER_PREFERENCES)}
        \cup {DEFAULT_APP_STATE[i][1] : i \in 1..Len(DEFAULT_APP_STATE)}

\* the state holds every default key and the current migration version
Populated(state) ==
    /\ DefaultKeys \subseteq DOMAIN state
    /\ "migration_version" \in DOMAIN state
    /\ state["migration_version"] = CURRENT_MIGRATION_VERSION

\* C12: initialize_session_state on a state that holds every default key
\* and migration_version = CURRENT_MIGRATION_VERSION returns no event, so
\* the session is left as it was; and no session log holds more than one
\* initialization event.
C12_ReinitializeNoOp ==
    /\ (lastInit.called /\ Populated(lastInit.before))
           => /\ IsNone(lastInit.event)
              /\ lastInit.after = lastInit.before
    /\ \A i \in 1..Len(store) : Cardinality(InitEvents(store[i])) <= 1

\* a populated session was initialized again and got an event that writes
\* session_start_time and is_new_session
C12_Witness ==
    /\ lastInit.called
    /\ Populated(lastInit.before)
    /\ ~IsNone(lastInit.event)
    /\ lastInit.event.delta.keys = <<"session_start_time", "is_new_session">>
    /\ \E i \in 1..Len(store) : Cardinality(InitEvents(store[i])) = 1
(***************************************************************************)
(* What each migration step emits, read off the step alone.                *)
(***************************************************************************)
\* the keys step v emits for existing_state
StepKeys(v, existing_state) ==
    CASE v = 1 -> {DEFAULT_USER_PREFERENCES[i][1] :
                       i \in 1..Len(DEFAULT_USER_PREFERENCES)} \ DOMAIN existing_state
      [] v = 2 -> {new_v2_preferences[i][1] :
                       i \in 1..Len(new_v2_preferences)} \ DOMAIN existing_state
      [] v = 3 -> {namespace_migrations[i][2] :
                       i \in {j \in 1..Len(namespace_migrations) :
                                  namespace_migrations[j][1] \in DOMAIN existing_state}}
                      \ DOMAIN existing_state

StepsInRange(current_version, target_version) ==
    {v \in 1..CURRENT_MIGRATION_VERSION :
         current_version < v /\ v <= target_version}

\* C13: the delta of get_migration_updates holds exactly the keys of the
\* steps v with current_version < v <= target_version; a step outside that
\* range contributes no key, and the delta is empty when current_version >=
\* target_version.
C13_StepRange ==
    lastUpd.called
    => /\ DOMAIN lastUpd.updates.val
              = UNION {StepKeys(v, lastUpd.existing_state) :
                           v \in StepsInRange(lastUpd.current_version,
                                              lastUpd.target_version)}
       /\ lastUpd.current_version >= lastUpd.target_version
              => lastUpd.updates = EmptyDict

\* a call from version 1 to 3: step 1 is skipped, steps 2 and 3 emit keys
C13_Witness ==
    /\ lastUpd.called
    /\ lastUpd.current_version = 1
    /\ lastUpd.target_version = 3
    /\ "profile:timezone" \notin DOMAIN lastUpd.existing_state
    /\ "profile:timezone" \notin DOMAIN lastUpd.updates.val
    /\ "profile:conversation_style" \in DOMAIN lastUpd.updates.val
    /\ "user:name" \in DOMAIN lastUpd.existing_state
    /\ "profile:name" \in DOMAIN lastUpd.updates.val
\* C14: when the rename step runs, for every (old_key, new_key) pair whose
\* old key is in existing_state and whose new key is not, the delta maps the
\* new key to existing_state[old_key], also when an earlier step emitted a
\* default for it; and the delta holds no old key.
C14_RenamePreservesValue ==
    ( /\ lastUpd.called
      /\ lastUpd.current_version < 3
      /\ 3 <= lastUpd.target_version )
    => \A i \in 1..Len(namespace_migrations) :
           /\ ( /\ namespace_migrations[i][1] \in DOMAIN lastUpd.existing_state
                /\ namespace_migrations[i][2] \notin DOMAIN lastUpd.existing_state )
                  => /\ namespace_migrations[i][2] \in DOMAIN lastUpd.updates.val
                     /\ lastUpd.updates.val[namespace_migrations[i][2]]
                            = lastUpd.existing_state[namespace_migrations[i][1]]
           /\ namespace_migrations[i][1] \notin DOMAIN lastUpd.updates.val

\* steps 1 and 3 ran in one call on a state with user:name and without
\* profile:name: the delta carries the user's name, not the default
C14_Witness ==
    /\ lastUpd.called
    /\ lastUpd.current_version = 0
    /\ lastUpd.target_version = 3
    /\ "user:name" \in DOMAIN lastUpd.existing_state
    /\ "profile:name" \notin DOMAIN lastUpd.existing_state
    /\ lastUpd.updates.val["profile:name"] = "Musa"
    /\ "profile:timezone" \in DOMAIN lastUpd.updates.val
\* the delta holds migration_version together with a migrated key
HasMigrationKeys(delta) ==
    /\ "migration_version" \in DOMAIN delta.val
    /\ DOMAIN delta.val \cap DefaultKeys /= {}

\* the key the delta holds last
LastKey(delta) == delta.keys[Len(delta.keys)]

\* C15: in the delta of migrate_existing_session and in the delta of
\* initialize_session_state, when migration_version comes with migrated
\* keys, migration_version is the last key of the delta.
C15_VersionWrittenLast ==
    /\ (lastMig.called /\ ~IsNone(lastMig.event)
            /\ HasMigrationKeys(lastMig.event.delta))
           => LastKey(lastMig.event.delta) = "migration_version"
    /\ (lastInit.called /\ ~IsNone(lastInit.event)
            /\ HasMigrationKeys(lastInit.event.delta))
           => LastKey(lastInit.event.delta) = "migration_version"

\* a session stored at version 1 or 2 was initialized: migration_version was
\* written at line 100 and the defaults and session keys after it
C15_Witness ==
    /\ lastInit.called
    /\ "migration_version" \in DOMAIN lastInit.before
    /\ lastInit.before["migration_version"] < CURRENT_MIGRATION_VERSION
    /\ HasMigrationKeys(lastInit.event.delta)
    /\ LastKey(lastInit.event.delta) = "is_new_session"
    /\ \E i, j \in 1..Len(lastInit.event.delta.keys) :
           /\ i < j
           /\ lastInit.event.delta.keys[i] = "migration_version"
           /\ lastInit.event.delta.keys[j] \in DefaultKeys
\* the stored version of a session, 0 when the key is absent
StoredVersion(sess) == StateGet(sess.state, "migration_version", 0)

\* C16: the stored version of every session stays within
\* 0..CURRENT_MIGRATION_VERSION, and no operation lowers the stored version
\* of a session.
C16_VersionInRangeMonotone ==
    /\ [](\A i \in 1..Len(store) :
              StoredVersion(store[i]) \in 0..CURRENT_MIGRATION_VERSION)
    /\ [][/\ Len(store') >= Len(store)
          /\ \A i \in 1..Len(store) :
                 StoredVersion(store'[i]) >= StoredVersion(store[i])]_vars

\* a session stored below the current version was migrated, another was
\* initialized, and find_or_create_session created a session
C16_Witness ==
    /\ lastMig.called
    /\ StateGet(lastMig.before, "migration_version", 0) \in {1, 2}
    /\ StateGet(lastMig.after, "migration_version", 0) = CURRENT_MIGRATION_VERSION
    /\ lastInit.called
    /\ Len(store) = 2
    /\ \A i \in 1..Len(store) : StoredVersion(store[i]) = CURRENT_MIGRATION_VERSION
\* C17: a session returned by a call whose store calls all succeeded - fetched
\* by id, taken from the list or created - has migration_version =
\* CURRENT_MIGRATION_VERSION, in the state returned and in the store.
C17_ReturnedSessionIsCurrent ==
    ( /\ hist.n >= 1
      /\ AllSucceeded(hist.last.calls)
      /\ hist.last.outcome = "returned" )
    => /\ "migration_version" \in DOMAIN hist.last.state
       /\ hist.last.state["migration_version"] = CURRENT_MIGRATION_VERSION
       /\ hist.last.returned_id \in 1..Len(store)
       /\ StoredVersion(store[hist.last.returned_id]) = CURRENT_MIGRATION_VERSION
       /\ "migration_version" \in DOMAIN store[hist.last.returned_id].state

\* a stored session of a version below the current one was fetched and
\* migrated by the call
C17_Witness ==
    /\ hist.n >= 1
    /\ AllSucceeded(hist.last.calls)
    /\ hist.last.outcome = "returned"
    /\ ~hist.last.is_new
    /\ hist.last.events_after = hist.last.events_before + 1
    /\ \E j \in 1..Len(store[hist.last.returned_id].events) :
           store[hist.last.returned_id].events[j].invocation_id = "session_migration"
    /\ hist.last.state["migration_version"] = CURRENT_MIGRATION_VERSION
(***************************************************************************)
(* Specification SpecRem: the reminder tools called on the state of one    *)
(* session.                                                                *)
(***************************************************************************)
\* texts of reminders: two of equal length that share a word, one with a
\* digit, the empty text
ReminderTexts == {"Buy milk", "Get MILK", "Call 2 friends", ""}

UpdatedTexts == {"Buy milk"}

\* reminder references: numbers, words of position, pieces of text
ReminderReferences ==
    {"1", "2", "3", "0", " 2 ", "-1",
     "first", "FIRST", "last", "Last", "second", "third",
     "1st", "2nd", "fourth", "latest", "newest",
     "milk", "l", "Call 2", "zebra", ""}

\* the list is absent, or holds a plain-string reminder of an earlier revision
InitRem ==
    /\ store = <<NewSession(InitializedState)>>
    /\ now = 0
    /\ lastUpd = NoUpd
    /\ lastMig = NoMig
    /\ lastInit = NoInit
    /\ session \in {[id |-> 1, state |-> InitializedState],
                    [id |-> 1,
                     state |-> ("user:reminders" :> <<LegacyReminder("Call 2 friends")>>)
                                   @@ InitializedState]}
    /\ lastTool = NoTool
    /\ lastFlush = NoFlush
    /\ lastRem = NoRem
    /\ lastEval = NoEval
    /\ lastAgent = NoAgent
    /\ tasks = <<>>
    /\ memory = <<>>
    /\ lastMem = NoMem
    /\ objects = <<>>
    /\ defaultReminders = DefaultRemindersList
    /\ lastOp = NoOp
    /\ hist = NoHist

RecordReminderCall(tool, reminder_reference, text, r) ==
    [called |-> TRUE, tool |-> tool, reminder_reference |-> reminder_reference,
     text |-> text, before |-> session.state, after |-> r.state,
     response |-> r.response, index |-> r.index, raised |-> r.raised]

AddReminder ==
    \E reminder \in ReminderTexts :
        /\ Len(StateGet(session.state, "user:reminders", <<>>)) < MaxReminders
        /\ \E r \in {AddReminderTool_run(session.state, reminder, now)} :
               /\ session' = [session EXCEPT !.state = r.state]
               /\ lastRem' = RecordReminderCall("add_reminder", "", reminder, r)
        /\ UNCHANGED <<shareVars, memVars, store, now, migVars, lastTool, lastFlush, bootVars>>

UpdateReminder ==
    \E reminder_reference \in ReminderReferences, updated_text \in UpdatedTexts :
        /\ \E r \in {UpdateReminderTool_run(session.state, reminder_reference,
                                            updated_text, now)} :
               /\ session' = [session EXCEPT !.state = r.state]
               /\ lastRem' = RecordReminderCall("update_reminder",
                                 reminder_reference, updated_text, r)
        /\ UNCHANGED <<shareVars, memVars, store, now, migVars, lastTool, lastFlush, bootVars>>

CompleteReminder ==
    \E reminder_reference \in ReminderReferences :
        /\ \E r \in {CompleteReminderTool_run(session.state, reminder_reference,
                                              now)} :
               /\ session' = [session EXCEPT !.state = r.state]
               /\ lastRem' = RecordReminderCall("complete_reminder",
                                 reminder_reference, "", r)
        /\ UNCHANGED <<shareVars, memVars, store, now, migVars, lastTool, lastFlush, bootVars>>

NextRem == AddReminder \/ UpdateReminder \/ CompleteReminder

SpecRem == InitRem /\ [][NextRem]_vars
\* the reminders list a recorded state holds
RemindersOf(state) == StateGet(state, "user:reminders", <<>>)

\* the latest call was update_reminder or complete_reminder
ResolvingCall ==
    lastRem.called /\ lastRem.tool \in {"update_reminder", "complete_reminder"}

\* numerals among the references and the numbers they denote
NumeralValue == ("1" :> 1) @@ ("2" :> 2) @@ ("3" :> 3) @@ (" 2 " :> 2)

\* C18: on a non-empty list a reference that denotes a number n with
\* 1 <= n <= len(reminders) resolves to index n - 1, also when the reference
\* occurs in the text of another reminder.
C18_NumericReference ==
    ( /\ ResolvingCall
      /\ lastRem.reminder_reference \in DOMAIN NumeralValue
      /\ NumeralValue[lastRem.reminder_reference]
             \in 1..Len(RemindersOf(lastRem.before)) )
    => /\ ~lastRem.raised
       /\ lastRem.index = NumeralValue[lastRem.reminder_reference] - 1
       /\ lastRem.response.status = "success"
       /\ lastRem.response.matched_index
              = <<NumeralValue[lastRem.reminder_reference]>>

\* reference "2" on a list whose first reminder has "2" in its text: the
\* second reminder was chosen
C18_Witness ==
    /\ ResolvingCall
    /\ lastRem.reminder_reference = "2"
    /\ Len(RemindersOf(lastRem.before)) = 2
    /\ RemindersOf(lastRem.before)[1].text = "Call 2 friends"
    /\ RemindersOf(lastRem.before)[2].text = "Buy milk"
    /\ lastRem.index = 1
    /\ lastRem.response.status = "success"
\* the words of position of the lexicon and their 0-based positions in a list
\* of length n
OrdinalPosition(n) ==
    ("first" :> 0) @@ ("1st" :> 0) @@ ("second" :> 1) @@ ("2nd" :> 1)
        @@ ("third" :> 2) @@ ("3rd" :> 2) @@ ("fourth" :> 3) @@ ("4th" :> 3)
        @@ ("fifth" :> 4) @@ ("5th" :> 4)
        @@ ("last" :> n - 1) @@ ("latest" :> n - 1) @@ ("newest" :> n - 1)

\* C19: a reference that is, in any letter case, a word of the lexicon
\* resolves to the word's position whenever that position is inside the list.
C19_OrdinalLexicon ==
    ( /\ ResolvingCall
      /\ RemindersOf(lastRem.before) /= <<>>
      /\ lower(lastRem.reminder_reference)
             \in DOMAIN OrdinalPosition(Len(RemindersOf(lastRem.before)))
      /\ OrdinalPosition(Len(RemindersOf(lastRem.before)))
             [lower(lastRem.reminder_reference)]
                 < Len(RemindersOf(lastRem.before)) )
    => /\ ~lastRem.raised
       /\ lastRem.index = OrdinalPosition(Len(RemindersOf(lastRem.before)))
                              [lower(lastRem.reminder_reference)]

\* "latest" on a non-empty list resolved to no reminder
C19_Witness ==
    /\ ResolvingCall
    /\ lastRem.reminder_reference = "latest"
    /\ RemindersOf(lastRem.before) /= <<>>
    /\ lastRem.index = NoneIndex
    /\ lastRem.response.status = "error"
    /\ lastRem.after = lastRem.before
\* the references that are neither numbers nor words of position
TextReferences == {"milk", "l", "Call 2", "zebra", ""}

\* the positions of the reminders whose lowercased text contains the
\* lowercased reference
Matching(reminders, reminder_reference) ==
    {i \in 1..Len(reminders) :
         Contains(lower(reminder_reference), lower(reminders[i].text))}

\* C20: for a reference that is neither a number nor a word of position, the
\* resolver chooses, among the reminders whose text contains the reference,
\* the one with the highest score len(reference) / len(text), that is the
\* shortest text, and among equal scores the one with the lowest index.
C20_BestContentMatch ==
    ( /\ ResolvingCall
      /\ lastRem.reminder_reference \in TextReferences
      /\ Matching(RemindersOf(lastRem.before), lastRem.reminder_reference) /= {} )
    => /\ ~lastRem.raised
       /\ lastRem.index + 1
              \in Matching(RemindersOf(lastRem.before), lastRem.reminder_reference)
       /\ \A j \in Matching(RemindersOf(lastRem.before), lastRem.reminder_reference) :
              \/ Len(RemindersOf(lastRem.before)[lastRem.index + 1].text)
                     < Len(RemindersOf(lastRem.before)[j].text)
              \/ /\ Len(RemindersOf(lastRem.before)[lastRem.index + 1].text)
                        = Len(RemindersOf(lastRem.before)[j].text)
                 /\ lastRem.index + 1 <= j

\* the empty reference on a list that holds a reminder with empty text: the
\* score is 0 / 0 and the tool raised
C20_Witness ==
    /\ ResolvingCall
    /\ lastRem.reminder_reference = ""
    /\ \E i \in 1..Len(RemindersOf(lastRem.before)) :
           RemindersOf(lastRem.before)[i].text = ""
    /\ lastRem.raised
\* the words of position the resolver knows, with their 0-based positions in
\* a list of length n
KnownPosition(n) ==
    ("first" :> 0) @@ ("last" :> n - 1) @@ ("second" :> 1) @@ ("third" :> 2)

\* the indexes the three steps allow, tried in order, the first step that
\* matches deciding: the number, then the word of position, then the content
StepsInOrder(reminders, reminder_reference, n, ref) ==
    IF n.ok /\ n.value \in 1..Len(reminders) THEN {n.value - 1}
    ELSE IF ref \in DOMAIN KnownPosition(Len(reminders))
            /\ KnownPosition(Len(reminders))[ref] < Len(reminders)
    THEN {KnownPosition(Len(reminders))[ref]}
    ELSE IF Matching(reminders, reminder_reference) /= {}
    THEN {i - 1 : i \in Matching(reminders, reminder_reference)}
    ELSE {NoneIndex}

\* C21: on a non-empty list the number, the word of position and the content
\* are tried in this order and the first step that matches decides; a number
\* outside 1..len(reminders) passes on to the later steps, and no reminder is
\* found only when none of the three steps matches.
C21_StepsInOrder ==
    ( /\ ResolvingCall
      /\ RemindersOf(lastRem.before) /= <<>>
      /\ ~lastRem.raised )
    => lastRem.index \in StepsInOrder(RemindersOf(lastRem.before),
                             lastRem.reminder_reference,
                             int(lastRem.reminder_reference),
                             lower(lastRem.reminder_reference))

\* reference "2" on a list of one reminder whose text contains "2": no
\* reminder was found
C21_Witness ==
    /\ ResolvingCall
    /\ lastRem.reminder_reference = "2"
    /\ Len(RemindersOf(lastRem.before)) = 1
    /\ RemindersOf(lastRem.before)[1].text = "Call 2 friends"
    /\ ~lastRem.raised
    /\ lastRem.index = NoneIndex
    /\ lastRem.response.status = "error"
\* C22: for every list of reminders (empty, with empty texts, with
\* plain-string items) and every reference (the empty one included)
\* update_reminder and complete_reminder return a dict whose status is success
\* or error and never raise; on the empty list the status is error.
C22_ResolverTotal ==
    ResolvingCall
    => /\ ~lastRem.raised
       /\ lastRem.response.status \in {"success", "error"}
       /\ RemindersOf(lastRem.before) = <<>>
              => /\ lastRem.response.status = "error"
                 /\ lastRem.after = lastRem.before

\* complete_reminder with the empty reference raised on a list whose only
\* reminder has the empty text, and left the state as it was
C22_Witness ==
    /\ lastRem.called
    /\ lastRem.tool = "complete_reminder"
    /\ lastRem.reminder_reference = ""
    /\ Len(RemindersOf(lastRem.before)) = 1
    /\ RemindersOf(lastRem.before)[1].text = ""
    /\ lastRem.raised
    /\ lastRem.response.status = "raised"
    /\ lastRem.after = lastRem.before
\* C23: when the resolver finds no reminder, update_reminder and
\* complete_reminder return status error with matched_index None, which no
\* success carries, and leave the reminders and every other key of the state,
\* temp:last_reminder_update included, as they were.
C23_NotFoundChangesNothing ==
    /\ ( /\ ResolvingCall
         /\ RemindersOf(lastRem.before) /= <<>>
         /\ ~lastRem.raised
         /\ lastRem.index = NoneIndex )
       => /\ lastRem.response.status = "error"
          /\ lastRem.response.matched_index = <<>>
          /\ lastRem.after = lastRem.before
    /\ ( /\ ResolvingCall
         /\ lastRem.response.status = "success" )
       => /\ lastRem.response.matched_index /= <<>>
          /\ lastRem.response.matched_index[1]
                 \in 1..Len(RemindersOf(lastRem.before))

\* update_reminder with "zebra", which no text contains, after a reminder was
\* added: error, and the state with its temp:last_reminder_update is the same
C23_Witness ==
    /\ lastRem.called
    /\ lastRem.tool = "update_reminder"
    /\ lastRem.reminder_reference = "zebra"
    /\ RemindersOf(lastRem.before) /= <<>>
    /\ "temp:last_reminder_update" \in DOMAIN lastRem.before
    /\ lastRem.index = NoneIndex
    /\ lastRem.response.status = "error"
    /\ lastRem.response.matched_index = <<>>
    /\ lastRem.after = lastRem.before
\* the reminder as a dict, a plain string being converted at time t
AsDict(reminder, t) ==
    IF reminder.kind = "dict" THEN reminder
    ELSE Reminder(reminder.text, t, reminder.completed)

\* C24: the list grows at its tail only and is never reordered: add_reminder
\* appends the new reminder as the last item; update_reminder and
\* complete_reminder change the resolved item alone (its text, respectively
\* completed = true) and keep the length and every other item; a completed
\* reminder stays in the list.
C24_AppendOnlyInPlace ==
    (lastRem.called /\ ~lastRem.raised)
    => LET before == RemindersOf(lastRem.before)
           after == RemindersOf(lastRem.after)
       IN  /\ lastRem.tool = "add_reminder"
                  => /\ Len(after) = Len(before) + 1
                     /\ SubSeq(after, 1, Len(before)) = before
                     /\ after[Len(after)].text = lastRem.text
                     /\ after[Len(after)].completed = FALSE
           /\ lastRem.tool \in {"update_reminder", "complete_reminder"}
                  => /\ Len(after) = Len(before)
                     /\ \A i \in 1..Len(before) :
                            i /= lastRem.index + 1 => after[i] = before[i]
           /\ (lastRem.tool = "update_reminder" /\ lastRem.index /= NoneIndex)
                  => /\ after[lastRem.index + 1].text = lastRem.text
                     /\ before[lastRem.index + 1].kind = "dict"
                            => after[lastRem.index + 1]
                                   = [before[lastRem.index + 1]
                                          EXCEPT !.text = lastRem.text]
           /\ (lastRem.tool = "complete_reminder" /\ lastRem.index /= NoneIndex)
                  => after[lastRem.index + 1]
                         = [AsDict(before[lastRem.index + 1],
                                   after[lastRem.index + 1].created_at)
                                EXCEPT !.completed = TRUE]

\* complete_reminder marked the first of two reminders: both are still in the
\* list, in their order, and the second is as it was
C24_Witness ==
    /\ lastRem.called
    /\ lastRem.tool = "complete_reminder"
    /\ lastRem.index = 0
    /\ Len(RemindersOf(lastRem.before)) = 2
    /\ ~RemindersOf(lastRem.before)[1].completed
    /\ Len(RemindersOf(lastRem.after)) = 2
    /\ RemindersOf(lastRem.after)[1].completed
    /\ RemindersOf(lastRem.after)[1].text = RemindersOf(lastRem.before)[1].text
    /\ RemindersOf(lastRem.after)[2] = RemindersOf(lastRem.before)[2]
(***************************************************************************)
(* Specification SpecClassify: _should_save_session_to_memory evaluated on *)
(* the state of one session, which the model callback and the reminder     *)
(* tools write while the clock advances.                                   *)
(***************************************************************************)
\* a session of version 2 that holds user:reminders, as find_or_create_session
\* returns it after the migration
RenamedState ==
    ApplyDelta(SeedState({"user:name", "user:reminders"}, TRUE, 2),
               migrate_existing_session(
                   SeedState({"user:name", "user:reminders"}, TRUE, 2)).delta)

InitClassify ==
    /\ store = <<NewSession(InitializedState)>>
    /\ now = 0
    /\ lastUpd = NoUpd
    /\ lastMig = NoMig
    /\ lastInit = NoInit
    /\ session \in {[id |-> 1, state |-> InitializedState],
                    [id |-> 1, state |-> RenamedState]}
    /\ lastTool = NoTool
    /\ lastFlush = NoFlush
    /\ lastRem = NoRem
    /\ lastEval = NoEval
    /\ lastAgent = NoAgent
    /\ tasks = <<>>
    /\ memory = <<>>
    /\ lastMem = NoMem
    /\ objects = <<>>
    /\ defaultReminders = DefaultRemindersList
    /\ lastOp = NoOp
    /\ hist = NoHist

\* the model is about to be called: before_model_callback counts the turn
BeforeModel ==
    /\ StateGet(session.state, "conversation_turn_count", 0) < MaxTurns
    /\ session' = [session EXCEPT !.state = before_model_callback(@, now)]
    /\ lastEval' = NoEval
    /\ UNCHANGED <<shareVars, store, now, migVars, lastTool, lastFlush, lastRem, bootVars,
                   lastAgent, tasks, memory, lastMem>>

\* the add_reminder tool of tools/reminders.py
AddUserReminder ==
    /\ Len(StateGet(session.state, "user:reminders", <<>>)) < MaxKept
    /\ session' = [session EXCEPT
                       !.state = AddReminderTool_run(@, "Buy milk", now).state]
    /\ lastEval' = NoEval
    /\ UNCHANGED <<shareVars, store, now, migVars, lastTool, lastFlush, lastRem, bootVars,
                   lastAgent, tasks, memory, lastMem>>

\* the add_reminder tool of tools/reminders_adk.py
AddProfileReminder ==
    /\ Len(StateGet(session.state, "profile:reminders", <<>>)) < MaxKept
    /\ session' = [session EXCEPT
                       !.state = add_reminder(@, " Buy milk ", "normal", now)]
    /\ lastEval' = NoEval
    /\ UNCHANGED <<shareVars, store, now, migVars, lastTool, lastFlush, lastRem, bootVars,
                   lastAgent, tasks, memory, lastMem>>

\* five minutes pass
Tick ==
    /\ now < 300 * MaxTicks
    /\ now' = now + 300
    /\ UNCHANGED <<shareVars, store, migVars, turnVars, bootVars, memVars>>

\* _should_save_session_to_memory(session, latest_message) is evaluated
Classify ==
    \E latest_message \in Messages :
        /\ lastEval' =
               [called |-> TRUE, latest_message |-> latest_message, time |-> now,
                result |-> _should_save_session_to_memory(session.state,
                                                          latest_message, now),
                prev |-> IF lastEval.called
                            /\ lastEval.latest_message = latest_message
                         THEN [called |-> TRUE, time |-> lastEval.time,
                               result |-> lastEval.result]
                         ELSE NoEval.prev]
        /\ UNCHANGED <<shareVars, store, now, migVars, turnVars, bootVars, lastAgent, tasks,
                       memory, lastMem>>

NextClassify ==
    BeforeModel \/ AddUserReminder \/ AddProfileReminder \/ Tick \/ Classify

SpecClassify == InitClassify /\ [][NextClassify]_vars
\* the turn count of the session under classification
TurnCount == StateGet(session.state, "conversation_turn_count", 0)

\* C25: a session whose conversation_turn_count is at least 3 is saved,
\* whatever the latest message (the empty one included) and the other keys of
\* the state.
C25_ThreeTurnsAlwaysSaved ==
    (lastEval.called /\ TurnCount >= 3) => lastEval.result

\* the third turn with the empty message, no reminders and no time passed
C25_Witness ==
    /\ lastEval.called
    /\ TurnCount = 3
    /\ lastEval.latest_message = ""
    /\ StateGet(session.state, "user:reminders", <<>>) = <<>>
    /\ StateGet(session.state, "profile:reminders", <<>>) = <<>>
    /\ lastEval.time = 0
    /\ lastEval.result
\* what the eight rules read off each message: the number of categories of
\* high-value words, the number of words, an interrogative marker, a
\* first-person marker, the number of kinds of actionable-intent markers
RuleMetrics ==
    ("" :> [category |-> 0, words |-> 0, interrogative |-> FALSE,
            personal |-> FALSE, actionable |-> 0])
    @@ ("ok" :> [category |-> 0, words |-> 1, interrogative |-> FALSE,
                 personal |-> FALSE, actionable |-> 0])
    @@ ("my goal is to learn" :>
            [category |-> 2, words |-> 5, interrogative |-> FALSE,
             personal |-> TRUE, actionable |-> 0])
    @@ ("goal" \o Filler(49) :>
            [category |-> 1, words |-> 50, interrogative |-> FALSE,
             personal |-> FALSE, actionable |-> 0])
    @@ ("goal" \o Filler(48) :>
            [category |-> 1, words |-> 49, interrogative |-> FALSE,
             personal |-> FALSE, actionable |-> 0])
    @@ ("why" \o Filler(29) :>
            [category |-> 0, words |-> 30, interrogative |-> TRUE,
             personal |-> FALSE, actionable |-> 0])
    @@ ("why" \o Filler(28) :>
            [category |-> 0, words |-> 29, interrogative |-> TRUE,
             personal |-> FALSE, actionable |-> 0])
    @@ ("i like" \o Filler(13) :>
            [category |-> 0, words |-> 15, interrogative |-> FALSE,
             personal |-> TRUE, actionable |-> 0])
    @@ ("i like" \o Filler(12) :>
            [category |-> 0, words |-> 14, interrogative |-> FALSE,
             personal |-> TRUE, actionable |-> 0])
    @@ ("remind me i will" :>
            [category |-> 0, words |-> 4, interrogative |-> FALSE,
             personal |-> FALSE, actionable |-> 2])
    @@ ("remind me" :>
            [category |-> 0, words |-> 2, interrogative |-> FALSE,
             personal |-> FALSE, actionable |-> 1])
    @@ ("goalpost teamwork" :>
            [category |-> 0, words |-> 2, interrogative |-> FALSE,
             personal |-> FALSE, actionable |-> 0])

\* the session holds a reminder, in either list
RemindersExist ==
    \/ StateGet(session.state, "user:reminders", <<>>) /= <<>>
    \/ StateGet(session.state, "profile:reminders", <<>>) /= <<>>

\* at least one of the eight rules holds for the session and the message
\* evaluated at lastEval.time
SomeRuleHolds ==
    LET m == RuleMetrics[lastEval.latest_message]
        duration == lastEval.time
                        - StateGet(session.state, "session_start_time",
                                   lastEval.time)
    IN  \/ TurnCount >= 3
        \/ RemindersExist
        \/ m.category >= 2
        \/ m.words >= 50 /\ m.category >= 1
        \/ m.interrogative /\ TurnCount >= 2 /\ m.words >= 30
        \/ m.personal /\ m.words >= 15
        \/ duration >= 300 /\ TurnCount >= 2
        \/ m.actionable >= 2

\* C26: the session is saved if and only if at least one of the eight rules
\* holds (turns >= 3; reminders exist; category score >= 2; words >= 50 and
\* score >= 1; interrogative, turns >= 2 and words >= 30; personal marker and
\* words >= 15; duration >= 300 s and turns >= 2; actionable score >= 2), in
\* whatever order the rules are read.
C26_SavedIffSomeRule ==
    lastEval.called => (lastEval.result <=> SomeRuleHolds)

\* a reminder exists and no other rule holds: the session was not saved
C26_Witness ==
    /\ lastEval.called
    /\ lastEval.latest_message = "goalpost teamwork"
    /\ TurnCount = 1
    /\ RemindersExist
    /\ ~lastEval.result
\* C27: two evaluations of the same session state and the same message give
\* the same result, whenever they are made.
C27_SameInputsSameResult ==
    (lastEval.called /\ lastEval.prev.called)
    => lastEval.result = lastEval.prev.result

\* the same state and message "ok" were evaluated at 0 and at 300 seconds:
\* not saved, then saved
C27_Witness ==
    /\ lastEval.called
    /\ lastEval.prev.called
    /\ lastEval.latest_message = "ok"
    /\ lastEval.prev.time = 0
    /\ lastEval.time = 300
    /\ ~lastEval.prev.result
    /\ lastEval.result
\* C28: a session whose list under profile:reminders is not empty is saved,
\* whatever its turn count and the message: after add_reminder added a
\* reminder and after the rename of version 3 copied user:reminders.
C28_ProfileRemindersSaved ==
    ( /\ lastEval.called
      /\ StateGet(session.state, "profile:reminders", <<>>) /= <<>> )
    => lastEval.result

\* add_reminder stored a reminder under profile:reminders, and the session,
\* before its first turn and with message "ok", was not saved
C28_Witness ==
    /\ lastEval.called
    /\ lastEval.latest_message = "ok"
    /\ TurnCount = 0
    /\ "user:reminders" \notin DOMAIN session.state
    /\ StateGet(session.state, "profile:reminders", <<>>)
           = <<AdkReminder("Buy milk", "normal", 0)>>
    /\ ~lastEval.result
(***************************************************************************)
(* Specification SpecPromote: after_agent_callback schedules the           *)
(* background promotion of the session, the event loop runs the scheduled  *)
(* tasks, and maybe_add_session_to_memory is called; the session service   *)
(* and the knowledge store may fail.                                       *)
(***************************************************************************)
\* a message no rule accepts and one that rule 3 accepts
PromotionMessages == {"ok", "my goal is to learn"}

MemoryServices ==
    {NoMemoryService, [present |-> TRUE, rag_corpus |-> FALSE],
     [present |-> TRUE, rag_corpus |-> TRUE]}

\* at most one call of a run raises
PromotionFailSets == {{}} \cup {{f} : f \in PromotionFailPoints}

InitPromote ==
    /\ store = <<NewSession(InitializedState)>>
    /\ now = 0
    /\ lastUpd = NoUpd
    /\ lastMig = NoMig
    /\ lastInit = NoInit
    /\ session = [id |-> 1, state |-> InitializedState]
    /\ lastTool = NoTool
    /\ lastFlush = NoFlush
    /\ lastRem = NoRem
    /\ lastEval = NoEval
    /\ lastAgent = NoAgent
    /\ tasks = <<>>
    /\ memory = <<>>
    /\ lastMem = NoMem
    /\ objects = <<>>
    /\ defaultReminders = DefaultRemindersList
    /\ lastOp = NoOp
    /\ hist = NoHist

RecordPromotion(via, session_id, latest_message, memory_service, is_uuid_session, fails, r, inner_raised) ==
    [called |-> TRUE, via |-> via, session_id |-> session_id,
     latest_message |-> latest_message, memory_service |-> memory_service,
     is_uuid_session |-> is_uuid_session, fails |-> fails, calls |-> r.calls,
     evaluated |-> r.evaluated, should_save |-> r.should_save,
     inner_raised |-> inner_raised, raised |-> r.raised,
     memory_before |-> memory, memory_after |-> r.memory]

\* the agent has answered: after_agent_callback
AfterAgent ==
    \E found \in BOOLEAN, schedule_ok \in BOOLEAN,
       latest_message \in PromotionMessages :
        /\ StateGet(session.state, "request_counter", 0) < MaxRequests
        /\ \E r \in {after_agent_callback(session, found, latest_message,
                                          schedule_ok, now)} :
               /\ session' = [session EXCEPT !.state = r.state]
               /\ tasks' = tasks \o r.task
               /\ lastAgent' = [called |-> TRUE, returned |-> r.returned,
                                raised |-> r.raised, scheduled |-> r.task /= <<>>,
                                found |-> found, schedule_ok |-> schedule_ok]
        /\ UNCHANGED <<shareVars, store, now, migVars, lastTool, lastFlush, lastRem,
                       bootVars, lastEval, memory, lastMem>>

\* the event loop runs the oldest scheduled _upload_session_to_memory_async
RunUploadTask ==
    \E memory_service \in MemoryServices, is_uuid_session \in BOOLEAN,
       fails \in PromotionFailSets :
        /\ tasks /= <<>>
        /\ Len(memory) < MaxUploads
        /\ \E r \in {_upload_session_to_memory_async(store, memory,
                         memory_service, Head(tasks).session_id, is_uuid_session,
                         Head(tasks).latest_message, fails, now)} :
               /\ memory' = r.memory
               /\ lastMem' = RecordPromotion("task", Head(tasks).session_id,
                                 Head(tasks).latest_message, memory_service,
                                 is_uuid_session, fails, r, r.inner_raised)
        /\ tasks' = Tail(tasks)
        /\ UNCHANGED <<shareVars, store, now, migVars, turnVars, bootVars, lastEval,
                       lastAgent>>

\* maybe_add_session_to_memory called for a session id, held by the store or
\* not
MaybeAddSessionToMemory ==
    \E session_id \in 1..(Len(store) + 1), latest_message \in PromotionMessages,
       memory_service \in MemoryServices, is_uuid_session \in BOOLEAN,
       fails \in PromotionFailSets :
        /\ Len(memory) < MaxUploads
        /\ \E r \in {maybe_add_session_to_memory(store, memory, memory_service,
                         session_id, is_uuid_session, latest_message, fails,
                         now)} :
               /\ memory' = r.memory
               /\ lastMem' = RecordPromotion("call", session_id, latest_message,
                                 memory_service, is_uuid_session, fails, r,
                                 r.raised)
        /\ UNCHANGED <<shareVars, store, now, migVars, turnVars, bootVars, lastEval,
                       lastAgent, tasks>>

NextPromote == AfterAgent \/ RunUploadTask \/ MaybeAddSessionToMemory

SpecPromote == InitPromote /\ [][NextPromote]_vars
\* the calls of the latest promotion run that raised
FailedCalls == {i \in 1..Len(lastMem.calls) : ~lastMem.calls[i].ok}

\* C29: a failure in the promotion step (get_session, the classifier or the
\* upload raising) never leaves maybe_add_session_to_memory or
\* _upload_session_to_memory_async, and after_agent_callback always returns
\* None and only schedules the upload: its step changes neither the knowledge
\* store nor the record of the promotion runs.
C29_PromotionFailuresContained ==
    /\ [](lastMem.called => (~lastMem.raised /\ ~lastMem.inner_raised))
    /\ [](lastAgent.called => (lastAgent.returned = "None" /\ ~lastAgent.raised))
    /\ [][lastAgent' /= lastAgent => (memory' = memory /\ lastMem' = lastMem)]_vars

\* a scheduled task ran, the session was accepted, add_session_to_memory
\* raised, and the task returned normally with the knowledge store unchanged
C29_Witness ==
    /\ lastAgent.called
    /\ lastAgent.returned = "None"
    /\ lastMem.called
    /\ lastMem.via = "task"
    /\ lastMem.should_save
    /\ FailedCalls /= {}
    /\ lastMem.calls[Len(lastMem.calls)].op = "add_session_to_memory"
    /\ ~lastMem.raised
    /\ lastMem.memory_after = lastMem.memory_before
\* the calls of the latest promotion run that upload to the knowledge store
UploadAttempts ==
    {i \in 1..Len(lastMem.calls) :
         lastMem.calls[i].op \in {"add_session_to_memory", "rag.upload_file"}}

\* C30: one call of maybe_add_session_to_memory makes at most one upload
\* attempt, makes it only if the classifier accepted the fetched session,
\* makes none when no memory service is configured, and makes no call after
\* an upload that failed; the knowledge store grows by at most that session.
C30_AtMostOneUpload ==
    lastMem.called
    => /\ Cardinality(UploadAttempts) <= 1
       /\ UploadAttempts /= {}
              => /\ lastMem.session_id \in 1..Len(store)
                 /\ lastMem.should_save
                 /\ _should_save_session_to_memory(
                        store[lastMem.session_id].state, lastMem.latest_message,
                        now)
       /\ ~lastMem.memory_service.present
              => /\ UploadAttempts = {}
                 /\ \A i \in 1..Len(lastMem.calls) :
                        lastMem.calls[i].op = "get_session_service"
       /\ \A i \in UploadAttempts \cap FailedCalls : i = Len(lastMem.calls)
       /\ \/ lastMem.memory_after = lastMem.memory_before
          \/ /\ UploadAttempts \ FailedCalls /= {}
             /\ lastMem.memory_after
                    = Append(lastMem.memory_before, lastMem.session_id)

\* maybe_add_session_to_memory fetched the session, the classifier accepted
\* it and the one upload stored it
C30_Witness ==
    /\ lastMem.called
    /\ lastMem.via = "call"
    /\ lastMem.latest_message = "my goal is to learn"
    /\ lastMem.should_save
    /\ lastMem.calls = <<Call("get_session", TRUE),
                         Call("add_session_to_memory", TRUE)>>
    /\ lastMem.memory_after = Append(lastMem.memory_before, lastMem.session_id)

(***************************************************************************)
(* C31: update_user_preference called with an empty or whitespace-only     *)
(* preference name returns the error response of type validation_error     *)
(* (the ToolError is turned into a response, nothing is raised) and        *)
(* changes no state key: apart from the temp: bookkeeping of the tool      *)
(* callbacks the session state after the invocation is the state before    *)
(* it, so no profile: key is written, nothing is marked in                 *)
(* _pending_state_changes and nothing is queued in                         *)
(* _pending_persistence_events.                                            *)
(***************************************************************************)
C31_EmptyNameRejected ==
    (/\ lastTool.called
     /\ Strip(lastTool.preference_name) = "")
    => /\ lastTool.response.status = "error"
       /\ lastTool.response.error_type = "validation_error"
       /\ ~lastTool.response._needs_persistence
       /\ lastTool.response._state_changes = EmptyDict
       /\ DOMAIN lastTool.after \ TempKeys = DOMAIN lastTool.before \ TempKeys
       /\ \A k \in DOMAIN lastTool.before \ TempKeys :
              lastTool.after[k] = lastTool.before[k]
       /\ "temp:last_preference_update" \in DOMAIN lastTool.after
              => /\ "temp:last_preference_update" \in DOMAIN lastTool.before
                 /\ lastTool.after["temp:last_preference_update"]
                        = lastTool.before["temp:last_preference_update"]

\* a whitespace-only name was rejected on a session that already holds a
\* queued change of an earlier call
C31_Witness ==
    /\ lastTool.called
    /\ lastTool.preference_name = "  "
    /\ lastTool.response.status = "error"
    /\ StateGet(lastTool.before, "_pending_persistence_events", <<>>) /= <<>>
    /\ lastTool.after["_pending_persistence_events"]
           = lastTool.before["_pending_persistence_events"]

(***************************************************************************)
(* Specification SpecShare: several sessions live side by side.  Each is   *)
(* bootstrapped from the default preferences; then preferences are staged, *)
(* pending queues flushed and reminders added and completed, in any        *)
(* interleaving.  store[i] is the stored session i, objects[i] the         *)
(* in-memory session object of its turn.                                   *)
(***************************************************************************)
InitShare ==
    /\ store = <<>>
    /\ now = 0
    /\ lastUpd = NoUpd
    /\ lastMig = NoMig
    /\ lastInit = NoInit
    /\ session = NoSession
    /\ lastTool = NoTool
    /\ lastFlush = NoFlush
    /\ lastRem = NoRem
    /\ lastEval = NoEval
    /\ lastAgent = NoAgent
    /\ tasks = <<>>
    /\ memory = <<>>
    /\ lastMem = NoMem
    /\ objects = <<>>
    /\ defaultReminders = DefaultRemindersList
    /\ lastOp = NoOp
    /\ hist = NoHist

Held == {sid \in 1..Len(objects) : objects[sid].held}

OpDone(op, sid) ==
    /\ lastOp.count < MaxShareOps
    /\ lastOp' = [op |-> op, sid |-> sid, count |-> lastOp.count + 1]

\* the tool's event as the runner appends it: the non-temp keys of its delta
ToolEvent(delta) == Event("agent", "tool_response", TrimTemp(EmptyDict, delta, 1), "")

\* the new-session path of find_or_create_session
ShareBootstrap ==
    \E fails \in {{}, {"reload_created"}} :
        /\ Len(store) < MaxShared
        /\ \E r \in {CreateSession(store, <<>>, fails, EmptyMap, now)} :
               LET sid == Len(store) + 1
                   st == SerializedDefaults(r.store, sid, defaultReminders)
               IN  /\ store' = st
                   /\ objects' = Append(objects,
                                    IF r.outcome = "returned"
                                    THEN ReloadedObject(st, sid) ELSE NoObject)
                   /\ OpDone("bootstrap", sid)
        /\ UNCHANGED <<memVars, now, migVars, turnVars, bootVars, defaultReminders>>

\* update_user_preference between its tool callbacks, on the session sid
ShareStage ==
    \E sid \in Held, preference_value \in PreferenceValues :
        /\ LET c0 == [state |-> ObjectState(objects[sid], defaultReminders),
                      delta |-> EmptyDict]
               c1 == before_tool_callback(c0, "update_user_preference",
                         <<"language_preference", preference_value>>, now)
               r  == UpdateUserPreferenceTool_run(c1, "language_preference",
                                                  preference_value, now)
               c2 == after_tool_callback(r.ctx, "update_user_preference",
                                         r.response, now)
           IN  /\ objects' = [objects EXCEPT ![sid].state = c2.state]
               /\ store' = append_event(store, sid, ToolEvent(c2.delta))
        /\ OpDone("update_user_preference", sid)
        /\ UNCHANGED <<memVars, now, migVars, turnVars, bootVars, defaultReminders>>

\* process_pending_state_persistence on the session sid
ShareFlush ==
    \E sid \in Held, failing \in {{}, {1}}, cleanup_fails \in BOOLEAN :
        /\ \E r \in {process_pending_state_persistence(store,
                         [id |-> sid,
                          state |-> ObjectState(objects[sid], defaultReminders)],
                         failing, cleanup_fails)} :
               /\ store' = r.store
               /\ objects' = [objects EXCEPT ![sid].state = r.session.state]
        /\ OpDone("flush", sid)
        /\ UNCHANGED <<memVars, now, migVars, turnVars, bootVars, defaultReminders>>

\* a tool wrote new_state["profile:reminders"] after changing the list it
\* read in place: a shared list is the default list object
ReminderToolEffect(sid, new_state) ==
    /\ objects' = [objects EXCEPT ![sid].state = new_state]
    /\ defaultReminders' = IF objects[sid].shared
                           THEN new_state["profile:reminders"]
                           ELSE defaultReminders
    /\ store' = append_event(store, sid,
                    ToolEvent(DictSet(EmptyDict, "profile:reminders",
                                      new_state["profile:reminders"])))

\* add_reminder of tools/reminders_adk.py on the session sid
ShareAddReminder ==
    \E sid \in Held :
        /\ Len(StateGet(ObjectState(objects[sid], defaultReminders),
                        "profile:reminders", <<>>)) < MaxKept
        /\ ReminderToolEffect(sid,
               add_reminder(ObjectState(objects[sid], defaultReminders),
                            " Buy milk ", "normal", now))
        /\ OpDone("add_reminder", sid)
        /\ UNCHANGED <<memVars, now, migVars, turnVars, bootVars>>

\* complete_reminder of tools/reminders_adk.py on the session sid
ShareCompleteReminder ==
    \E sid \in Held :
        /\ \E r \in {complete_reminder(ObjectState(objects[sid], defaultReminders),
                                       1, now)} :
               /\ r.message = "completed"
               /\ ReminderToolEffect(sid, r.state)
        /\ OpDone("complete_reminder", sid)
        /\ UNCHANGED <<memVars, now, migVars, turnVars, bootVars>>

NextShare ==
    \/ ShareBootstrap
    \/ ShareStage
    \/ ShareFlush
    \/ ShareAddReminder
    \/ ShareCompleteReminder

SpecShare == InitShare /\ [][NextShare]_vars

(***************************************************************************)
(* C32: an operation on one session (bootstrap from the defaults, staging  *)
(* a preference, flushing the pending queue, adding or completing a        *)
(* reminder) leaves alone every other session - the state read through its *)
(* in-memory object, which holds its pending queue, and its stored state   *)
(* and event log - and the default reminders list from which later         *)
(* sessions are initialized, in every interleaving of the operations.      *)
(***************************************************************************)
C32_SessionsIndependent ==
    /\ [](defaultReminders = DefaultRemindersList)
    /\ [][\A j \in 1..Len(store) :
              j /= lastOp'.sid
                  => /\ store'[j] = store[j]
                     /\ objects'[j].held = objects[j].held
                     /\ ObjectState(objects'[j], defaultReminders')
                            = ObjectState(objects[j], defaultReminders)]_vars

\* two sessions live: the first holds a reminder and a staged preference,
\* the second, bootstrapped later, has the empty list and an empty queue
C32_Witness ==
    /\ Len(objects) = 2
    /\ objects[1].held /\ objects[2].held
    /\ lastOp.sid = 1
    /\ Len(ObjectState(objects[1], defaultReminders)["profile:reminders"]) = 1
    /\ StateGet(objects[1].state, "_pending_persistence_events", <<>>) /= <<>>
    /\ ObjectState(objects[2], defaultReminders)["profile:reminders"] = <<>>
    /\ StateGet(objects[2].state, "_pending_persistence_events", <<>>) = <<>>
    /\ defaultReminders = <<>>

(***************************************************************************)
(* Helpers of the batching claim.                                          *)
(***************************************************************************)
\* the state after the updates of get_migration_updates(cv, tv, state) were
\* applied to it
MigratedBy(current_version, target_version, state) ==
    ApplyDelta(state, get_migration_updates(current_version, target_version, state))

\* the steps applied one at a time, each to the state the previous one left
MigratedStepwise(state) ==
    MigratedBy(2, 3, MigratedBy(1, 2, MigratedBy(0, 1, state)))

(***************************************************************************)
(* C33: for a state of version 0, the updates of the single call           *)
(* get_migration_updates(0, 3, S) give every migrated key the value that   *)
(* the calls (0, 1), (1, 2) and (2, 3), each applied to the state the      *)
(* previous one produced, give it.                                         *)
(***************************************************************************)
C33_BatchingIrrelevant ==
    (/\ lastUpd.called
     /\ lastUpd.current_version = 0
     /\ lastUpd.target_version = 3
     /\ StateGet(lastUpd.existing_state, "migration_version", 0) = 0)
    => LET batched == ApplyDelta(lastUpd.existing_state, lastUpd.updates)
           stepwise == MigratedStepwise(lastUpd.existing_state)
       IN  /\ DOMAIN batched = DOMAIN stepwise
           /\ \A k \in DOMAIN batched \ DOMAIN lastUpd.existing_state :
                  batched[k] = stepwise[k]

\* the single call was made on a version-0 state that holds user:name but
\* not profile:name
C33_Witness ==
    /\ lastUpd.called
    /\ lastUpd.current_version = 0
    /\ lastUpd.target_version = 3
    /\ StateGet(lastUpd.existing_state, "migration_version", 0) = 0
    /\ "user:name" \in DOMAIN lastUpd.existing_state
    /\ "profile:name" \notin DOMAIN lastUpd.existing_state
    /\ lastUpd.updates.val["profile:name"] = lastUpd.existing_state["user:name"]

(***************************************************************************)
(* Helpers of the claim on the two migration paths.                        *)
(***************************************************************************)
\* the migration keys: the profile: and system: keys of the defaults and of
\* the v3 rename
MigrationKeys ==
    DefaultKeys \cup {namespace_migrations[i][2] : i \in 1..Len(namespace_migrations)}

(***************************************************************************)
(* C34: for a session state whose stored version is below                  *)
(* CURRENT_MIGRATION_VERSION, every migration key that the delta of        *)
(* initialize_session_state and the delta of migrate_existing_session both *)
(* emit has the same value in both; in particular, with user:name = X      *)
(* present and profile:name absent, the initialization delta sets          *)
(* profile:name = X.                                                       *)
(***************************************************************************)
C34_BootstrapMigratesAsFetch ==
    (/\ lastInit.called
     /\ StateGet(lastInit.before, "migration_version", 0) < CURRENT_MIGRATION_VERSION)
    => LET init_delta == lastInit.event.delta.val
           migration_delta == migrate_existing_session(lastInit.before).delta.val
       IN  /\ \A k \in MigrationKeys \cap DOMAIN init_delta \cap DOMAIN migration_delta :
                  init_delta[k] = migration_delta[k]
           /\ ("user:name" \in DOMAIN lastInit.before
                   /\ "profile:name" \notin DOMAIN lastInit.before)
                  => /\ "profile:name" \in DOMAIN init_delta
                     /\ init_delta["profile:name"] = lastInit.before["user:name"]

\* a stored session of version 2 that holds user:name and not profile:name
\* was initialized
C34_Witness ==
    /\ lastInit.called
    /\ StateGet(lastInit.before, "migration_version", 0) = 2
    /\ "user:name" \in DOMAIN lastInit.before
    /\ "profile:name" \notin DOMAIN lastInit.before
    /\ "profile:name" \in DOMAIN lastInit.event.delta.val
    /\ migrate_existing_session(lastInit.before).delta.val["profile:name"]
           = lastInit.before["user:name"]

(***************************************************************************)
(* C35: a call of find_or_create_session calls create_session only if no   *)
(* get_session of the same call succeeded: once the existing session was   *)
(* fetched, a later failure (the append of the migration event or the      *)
(* reload) does not lead to a new session returned with is_new = TRUE.     *)
(***************************************************************************)
C35_NoCreationAfterFetch ==
    hist.n >= 1
    => /\ \A k \in CallsOf(hist.last, "create_session") :
              \A i \in CallsOf(hist.last, "get_session") :
                  i < k => ~hist.last.calls[i].ok
       /\ (\E i \in CallsOf(hist.last, "get_session") :
               /\ hist.last.calls[i].ok
               /\ \E j \in (i + 1)..Len(hist.last.calls) : ~hist.last.calls[j].ok)
              => ~(hist.last.outcome = "returned" /\ hist.last.is_new)

\* the session was fetched and the append of its migration event raised
C35_Witness ==
    /\ hist.n >= 1
    /\ LookupAttempted(hist.last)
    /\ hist.last.calls[2].ok
    /\ Len(hist.last.calls) >= 3
    /\ hist.last.calls[3] = Call("append_event", FALSE)

(***************************************************************************)
(* Specification SpecAdk: the reminder functions of tools/reminders_adk.py *)
(* on the session of a turn, whose profile:reminders starts as the empty   *)
(* list of the defaults.  The clock advances between calls or stands       *)
(* still.                                                                  *)
(***************************************************************************)
InitAdk ==
    /\ store = <<NewSession(InitializedState)>>
    /\ now = 0
    /\ lastUpd = NoUpd
    /\ lastMig = NoMig
    /\ lastInit = NoInit
    /\ session = [id |-> 1, state |-> InitializedState]
    /\ lastTool = NoTool
    /\ lastFlush = NoFlush
    /\ lastRem = NoRem
    /\ lastEval = NoEval
    /\ lastAgent = NoAgent
    /\ tasks = <<>>
    /\ memory = <<>>
    /\ lastMem = NoMem
    /\ objects = <<>>
    /\ defaultReminders = DefaultRemindersList
    /\ lastOp = NoOp
    /\ hist = NoHist

AdkTexts == {"Buy milk", " Call John "}

\* add_reminder(reminder_text, tool_context)
AdkAddReminder ==
    \E reminder_text \in AdkTexts :
        /\ Len(session.state["profile:reminders"]) < MaxReminders
        /\ session' = [session EXCEPT
                           !.state = add_reminder(@, reminder_text, "normal", now)]
        /\ lastRem' = [NoRem EXCEPT !.called = TRUE, !.tool = "add_reminder",
                                    !.text = reminder_text,
                                    !.before = session.state,
                                    !.after = session'.state]
        /\ UNCHANGED <<shareVars, memVars, store, now, migVars, lastTool,
                       lastFlush, bootVars>>

\* complete_reminder(reminder_position, tool_context); index keeps the
\* position asked for
AdkCompleteReminder ==
    \E reminder_position \in 0..(MaxReminders + 1) :
        \E r \in {complete_reminder(session.state, reminder_position, now)} :
            /\ session' = [session EXCEPT !.state = r.state]
            /\ lastRem' = [NoRem EXCEPT !.called = TRUE,
                                        !.tool = "complete_reminder",
                                        !.response.status = r.message,
                                        !.index = reminder_position,
                                        !.before = session.state,
                                        !.after = r.state]
            /\ UNCHANGED <<shareVars, memVars, store, now, migVars, lastTool,
                           lastFlush, bootVars>>

NextAdk == AdkAddReminder \/ AdkCompleteReminder \/ Tick

SpecAdk == InitAdk /\ [][NextAdk]_vars

(***************************************************************************)
(* Helpers of the claim on complete_reminder.                              *)
(***************************************************************************)
RECURSIVE ActivePositions(_, _)
\* the positions, in list order, of the reminders not completed among the
\* first n
ActivePositions(reminders, n) ==
    IF n = 0 THEN <<>>
    ELSE IF reminders[n].completed THEN ActivePositions(reminders, n - 1)
         ELSE Append(ActivePositions(reminders, n - 1), n)

(***************************************************************************)
(* C36: on a list built by add_reminder calls, some of them within the     *)
(* same second, complete_reminder(p) with 1 <= p <= number of active       *)
(* reminders sets completed = true on the p-th active reminder in list     *)
(* order and changes no other reminder; with p outside that range no       *)
(* reminder changes.                                                       *)
(***************************************************************************)
C36_CompletesPthActive ==
    (lastRem.called /\ lastRem.tool = "complete_reminder")
    => LET before == lastRem.before["profile:reminders"]
           after == lastRem.after["profile:reminders"]
           active == ActivePositions(before, Len(before))
           p == lastRem.index
       IN  /\ Len(after) = Len(before)
           /\ (p >= 1 /\ p <= Len(active))
                  => /\ after[active[p]].completed
                     /\ \A i \in 1..Len(before) :
                            i /= active[p] => after[i] = before[i]
           /\ ~(p >= 1 /\ p <= Len(active)) => after = before

\* two reminders were added within the same second and the second of them
\* was asked to be completed
C36_Witness ==
    /\ lastRem.called
    /\ lastRem.tool = "complete_reminder"
    /\ lastRem.index = 2
    /\ lastRem.response.status = "completed"
    /\ Len(lastRem.before["profile:reminders"]) = 2
    /\ lastRem.before["profile:reminders"][1].id
           = lastRem.before["profile:reminders"][2].id
    /\ ~lastRem.before["profile:reminders"][1].completed
    /\ ~lastRem.before["profile:reminders"][2].completed

(***************************************************************************)
(* Specification SpecQueueLive: the turn of SpecQueue in which every       *)
(* append of the flush succeeds and the flush is run whenever it has       *)
(* something to do (the end of the turn comes).                            *)
(***************************************************************************)
FlushSucceeding == FlushWith({}, FALSE) /\ UNCHANGED shareVars

NextQueueLive == ToolUpdateUserPreference \/ FlushSucceeding

SpecQueueLive ==
    InitQueue /\ [][NextQueueLive]_vars /\ WF_vars(FlushSucceeding)

(***************************************************************************)
(* Helpers of the durability claim.                                        *)
(***************************************************************************)
PreferenceKeys == {"profile:" \o Strip(name) : name \in PreferenceNames \ {"", "  "}}

\* the latest tool call changed the preference k to v
Staged(k, v) ==
    /\ lastTool.called
    /\ lastTool.response.changed
    /\ "profile:" \o Strip(lastTool.preference_name) = k
    /\ lastTool.preference_value = v

\* the log of the session holds a state update event of a tool whose delta
\* sets k to v
InLog(k, v) ==
    \E i \in 1..Len(store[session.id].events) :
        LET e == store[session.id].events[i]
        IN  /\ e.invocation_id = "state_update"
            /\ k \in DOMAIN e.delta.val
            /\ e.delta.val[k] = v

\* nothing is pending and the stored state, the fold of the log's deltas,
\* agrees with the in-memory state on the preference keys
Durable ==
    /\ StateGet(session.state, "_pending_persistence_events", <<>>) = <<>>
    /\ \A k \in PreferenceKeys :
           /\ (k \in DOMAIN session.state) = (k \in DOMAIN store[session.id].state)
           /\ k \in DOMAIN session.state
                  => store[session.id].state[k] = session.state[k]

(***************************************************************************)
(* C37: when the flush is run at the end of the turn and its appends       *)
(* succeed, every update_user_preference call that changed a preference k  *)
(* to v is followed by a state in which the session's event log holds a    *)
(* state update event whose delta sets k to v, and by a state in which     *)
(* nothing is pending and the stored state agrees with the in-memory       *)
(* value.                                                                  *)
(***************************************************************************)
C37_StagedEventuallyDurable ==
    /\ \A k \in PreferenceKeys, v \in PreferenceValues : Staged(k, v) ~> InLog(k, v)
    /\ (lastTool.called /\ lastTool.response.changed) ~> Durable

\* a change was staged that the store has not seen: it is in the in-memory
\* state and in the pending list only
C37_Witness ==
    /\ Staged("profile:timezone", "UTC+1")
    /\ ~InLog("profile:timezone", "UTC+1")
    /\ session.state["profile:timezone"] = "UTC+1"
    /\ store[session.id].state["profile:timezone"] /= "UTC+1"
    /\ StateGet(session.state, "_pending_persistence_events", <<>>) /= <<>>

(***************************************************************************)
(* Specification SpecTurns: the session of SpecQueue over several turns.   *)
(* A turn begins with the session object loaded from the store             *)
(* (get_session), which holds the persisted keys, the pending list among   *)
(* them when the store recorded it, and none of the temp: keys.            *)
(* lastOp.count counts the entries staged so far.                          *)
(***************************************************************************)
TurnStage ==
    \E preference_value \in PreferenceValues, persisted \in BOOLEAN :
        /\ StageWith("language_preference", preference_value, persisted)
        /\ lastOp' = [lastOp EXCEPT
                          !.op = "update_user_preference",
                          !.sid = session.id,
                          !.count = IF lastTool'.response.changed
                                    THEN @ + 1 ELSE @]
        /\ UNCHANGED <<objects, defaultReminders>>

\* the flush at the end of a turn; the append of the cleanup event may fail
TurnFlush ==
    \E cleanup_fails \in BOOLEAN :
        /\ FlushWith({}, cleanup_fails)
        /\ UNCHANGED shareVars

\* the next turn: the runner loads the session from the store
NewTurn ==
    /\ now < MaxReloads
    /\ now' = now + 1
    /\ session' = [session EXCEPT !.state = store[session.id].state]
    /\ UNCHANGED <<shareVars, memVars, store, migVars, lastTool, lastFlush,
                   lastRem, bootVars>>

NextTurns == TurnStage \/ TurnFlush \/ NewTurn

SpecTurns == InitQueue /\ [][NextTurns]_vars

(***************************************************************************)
(* Helpers of the claim on repeated flushes.                               *)
(***************************************************************************)
\* the state update events of tools in a log
StateUpdateEvents(events) ==
    {i \in 1..Len(events) : events[i].invocation_id = "state_update"}

(***************************************************************************)
(* C38: over any sequence of stagings and flushes of one session the event *)
(* of a staged entry is appended to the store at most once - the log never *)
(* holds more state update events than entries were staged, a flush        *)
(* appending at most one event per entry of its queue - and a flush of an  *)
(* empty queue appends nothing, not even a cleanup event.                  *)
(***************************************************************************)
C38_AppendedAtMostOnce ==
    /\ Cardinality(StateUpdateEvents(store[session.id].events)) <= lastOp.count
    /\ lastFlush.called
           => /\ Cardinality(StateUpdateEvents(Appended(lastFlush)))
                     <= Len(lastFlush.pending)
              /\ lastFlush.pending = <<>>
                     => lastFlush.log_after = lastFlush.log_before

\* a flush whose cleanup event could not be appended was followed, in the
\* next turn, by a flush of the queue loaded from the store
C38_Witness ==
    /\ now = 1
    /\ lastFlush.called
    /\ lastFlush.pending /= <<>>
    /\ lastFlush.pending[1].timestamp = 0
    /\ lastOp.count = 1


(***************************************************************************)
(* Specification SpecStable: the writers of what rules 1 and 2 read, the   *)
(* model callback and the add_reminder, update_reminder and                *)
(* complete_reminder tools of tools/reminders.py, on one session.          *)
(***************************************************************************)
\* the references the tools of SpecStable are called with
StableReferences == {"1", "last", "milk"}

\* the update_reminder tool of tools/reminders.py
UpdateUserReminder ==
    \E reminder_reference \in StableReferences :
        /\ session' = [session EXCEPT
                           !.state = UpdateReminderTool_run(@, reminder_reference,
                                                            "Get MILK", now).state]
        /\ lastEval' = NoEval
        /\ UNCHANGED <<shareVars, store, now, migVars, lastTool, lastFlush, lastRem,
                       bootVars, lastAgent, tasks, memory, lastMem>>

\* the complete_reminder tool of tools/reminders.py
CompleteUserReminder ==
    \E reminder_reference \in StableReferences :
        /\ session' = [session EXCEPT
                           !.state = CompleteReminderTool_run(@, reminder_reference,
                                                              now).state]
        /\ lastEval' = NoEval
        /\ UNCHANGED <<shareVars, store, now, migVars, lastTool, lastFlush, lastRem,
                       bootVars, lastAgent, tasks, memory, lastMem>>

\* the session after find_or_create_session, without reminders or with the
\* plain-string reminder of an earlier revision
InitStable ==
    /\ store = <<NewSession(InitializedState)>>
    /\ now = 0
    /\ lastUpd = NoUpd
    /\ lastMig = NoMig
    /\ lastInit = NoInit
    /\ session \in {[id |-> 1, state |-> InitializedState],
                    [id |-> 1,
                     state |-> ("user:reminders" :> <<LegacyReminder("Call John")>>)
                                   @@ InitializedState]}
    /\ lastTool = NoTool
    /\ lastFlush = NoFlush
    /\ lastRem = NoRem
    /\ lastEval = NoEval
    /\ lastAgent = NoAgent
    /\ tasks = <<>>
    /\ memory = <<>>
    /\ lastMem = NoMem
    /\ objects = <<>>
    /\ defaultReminders = DefaultRemindersList
    /\ lastOp = NoOp
    /\ hist = NoHist

NextStable ==
    \/ BeforeModel
    \/ AddUserReminder
    \/ UpdateUserReminder
    \/ CompleteUserReminder
    \/ Tick
    \/ Classify

SpecStable == InitStable /\ [][NextStable]_vars

\* rule 1 or rule 2 of _should_save_session_to_memory holds for the session
EligibleByState ==
    \/ TurnCount >= 3
    \/ Len(StateGet(session.state, "user:reminders", <<>>)) > 0

(***************************************************************************)
(* C39: promotion eligibility is stable.  before_model_callback raises     *)
(* conversation_turn_count by exactly one and no step lowers it or changes *)
(* it otherwise; no step shortens user:reminders; so a session for which   *)
(* rule 1 (turns >= 3) or rule 2 (reminders exist) holds keeps it at every *)
(* later step, and every evaluation of such a session, whatever the        *)
(* message, returns True.                                                  *)
(***************************************************************************)
C39_EligibilityStable ==
    /\ [](/\ StateGet(before_model_callback(session.state, now),
                      "conversation_turn_count", 0) = TurnCount + 1
          /\ EligibleByState
                 => /\ lastEval.called => lastEval.result
                    /\ \A latest_message \in Messages :
                           _should_save_session_to_memory(session.state,
                                                          latest_message, now))
    /\ [][/\ TurnCount' \in {TurnCount, TurnCount + 1}
          /\ Len(StateGet(session'.state, "user:reminders", <<>>))
                 >= Len(StateGet(session.state, "user:reminders", <<>>))
          /\ EligibleByState => EligibleByState']_vars

\* a session without turns whose only reminder was completed is evaluated on
\* the empty message
C39_Witness ==
    /\ lastEval.called
    /\ lastEval.latest_message = ""
    /\ lastEval.result
    /\ TurnCount = 0
    /\ Len(StateGet(session.state, "user:reminders", <<>>)) = 1
    /\ session.state["user:reminders"][1].completed


\* the list position a successful call must have rewritten, and no other
OnlyPositionChanged(before, after, index) ==
    /\ Len(after) = Len(before)
    /\ \A i \in 1..Len(before) : i /= index + 1 => after[i] = before[i]

(***************************************************************************)
(* C40: whenever update_reminder or complete_reminder succeeds, the index  *)
(* it acted on lies in 0..len(reminders)-1 and the returned matched_index  *)
(* is that index plus one; whatever the identifier - a number, a word of   *)
(* position, a piece of text - the call leaves the length of the list and  *)
(* every other position as they were, and "second" and "third" on a list   *)
(* shorter than that position succeed only through a match of the text.    *)
(***************************************************************************)
C40_IndexWithinList ==
    (lastRem.called /\ lastRem.tool \in {"update_reminder", "complete_reminder"})
        => LET before == RemindersOf(lastRem.before)
               after == RemindersOf(lastRem.after)
               ref == lower(lastRem.reminder_reference)
           IN  /\ Len(after) = Len(before)
               /\ lastRem.response.status = "success"
                      => /\ lastRem.index \in 0..(Len(before) - 1)
                         /\ lastRem.response.matched_index = <<lastRem.index + 1>>
                         /\ OnlyPositionChanged(before, after, lastRem.index)
               /\ lastRem.response.status /= "success" => after = before
               /\ (\/ ref = "second" /\ Len(before) < 2
                   \/ ref = "third" /\ Len(before) < 3)
                      => \/ lastRem.response.status /= "success"
                         \/ Contains(ref, lower(ReminderText(before[lastRem.index + 1])))

\* "second" addressed the second of two reminders
C40_Witness ==
    /\ lastRem.called
    /\ lastRem.tool = "complete_reminder"
    /\ lastRem.reminder_reference = "second"
    /\ lastRem.response.status = "success"
    /\ lastRem.index = 1
    /\ Len(RemindersOf(lastRem.before)) = 2

====
